---- MODULE Spec2Model ----
(***************************************************************************)
(* PAN card + banking object store (kawas8516/pan_banking_system).         *)
(*                                                                         *)
(* oodb/database.py    validation, JSON file store with backup and         *)
(*                     write-to-temp-then-replace save, CRUD handlers      *)
(* oodb/bank_account.py  Transaction, Savings/Current/FixedDeposit         *)
(* oodb/citizen.py     Citizen                                             *)
(* oodb/main.py        deposit_money / withdraw_money store flows          *)
(*                                                                         *)
(* Money is modelled in whole rupees (Python floats holding integers),     *)
(* strings that are validated are sequences of one-character strings,      *)
(* a date is <<year, month, day>> and a time of day is a second count.     *)
(***************************************************************************)
EXTENDS Integers, Sequences, FiniteSets, TLC

VARIABLES
    disk,      \* the file system: DB_FILE, DB_FILE.tmp and BACKUP_DIR
    now,       \* datetime.now(): [date |-> <<y, m, d>>, sec |-> second of the day]
    uuid,      \* number of uuid4() values drawn so far
    last,      \* the last call made and what it reported
    account,   \* a live BankAccount object (bank_account.py)
    pc,        \* position of a save_database call that runs step by step
    data       \* the snapshot a running save_database call was given

vars == <<disk, now, uuid, last, account, pc, data>>

-----------------------------------------------------------------------------
(* Bounds of the model *)

\* the clock takes the seconds 0..MaxSec
MaxSec == 1
\* at most MaxOps store calls are made in one behaviour
MaxOps == 3
\* at most MaxCalls methods are called on one account object
MaxCalls == 2
\* at most MaxSaves handlers that save are run step by step
MaxSaves == 2
\* a collection of a snapshot that is saved and loaded holds at most MaxRecords
MaxRecords == 2
\* a key that is typed in has at most MaxLen characters
MaxLen == 10

-----------------------------------------------------------------------------
(* Characters and strings *)

Letters == {"A", "B", "C", "D", "E", "F", "S", "x"}
Digits == {"0", "1", "2", "3", "4", "5", "6", "7", "8", "9"}

\* str.isalpha(), str.isdigit(), str.isalnum(): false on the empty string
isalpha(s) == Len(s) > 0 /\ \A i \in 1..Len(s) : s[i] \in Letters
isdigit(s) == Len(s) > 0 /\ \A i \in 1..Len(s) : s[i] \in Digits
isalnum(s) == Len(s) > 0 /\ \A i \in 1..Len(s) : s[i] \in Letters \cup Digits

\* a check that leaves the last character unchecked
validate_pan_NoLastLetter(pan_number) ==
    IF Len(pan_number) = 0 \/ Len(pan_number) # 10
    THEN FALSE
    ELSE isalpha(SubSeq(pan_number, 1, 5)) /\ isdigit(SubSeq(pan_number, 6, 9))

\* validate_pan: 10 characters, [0:5] letters, [5:9] digits, [9] a letter
validate_pan(pan_number) ==
    IF Len(pan_number) = 0 \/ Len(pan_number) # 10
    THEN FALSE
    ELSE IF ~ ( /\ isalpha(SubSeq(pan_number, 1, 5))
                /\ isdigit(SubSeq(pan_number, 6, 9))
                /\ isalpha(<<pan_number[10]>>) )
         THEN FALSE
         ELSE TRUE

\* a check of the length alone
validate_account_number_LengthOnly(account_no) ==
    ~ (Len(account_no) = 0 \/ Len(account_no) < 8)

\* validate_account_number: at least 8 characters, all alphanumeric
validate_account_number(account_no) ==
    IF Len(account_no) = 0 \/ Len(account_no) < 8
    THEN FALSE
    ELSE isalnum(account_no)

-----------------------------------------------------------------------------
(* Keys, dates and the values the calls are made with *)

PAN1 == <<"A", "B", "C", "D", "E", "1", "2", "3", "4", "F">>
PAN2 == <<"S", "x", "C", "D", "E", "5", "6", "7", "8", "A">>
\* a digit in the letter zone
PANBAD == <<"A", "B", "C", "D", "1", "1", "2", "3", "4", "F">>
ACC1 == <<"S", "B", "0", "0", "0", "0", "0", "1">>
ACC2 == <<"C", "A", "0", "0", "0", "0", "0", "2">>
\* seven characters
ACCBAD == <<"S", "B", "0", "0", "0", "0", "1">>

PanInputs == {PAN1, PAN2, PANBAD}
AccInputs == {ACC1, ACC2, ACCBAD}

\* the days the clock visits, in order
Calendar == << <<2024, 1, 15>>, <<2024, 2, 15>>, <<2025, 1, 15>> >>

\* datetime.now().isoformat() strings compare as <<date, sec>> pairs do
DateLess(d, e) ==
    \/ d[1] < e[1]
    \/ d[1] = e[1] /\ d[2] < e[2]
    \/ d[1] = e[1] /\ d[2] = e[2] /\ d[3] < e[3]

IsoLess(t, m) ==
    \/ DateLess(t.date, m.date)
    \/ t.date = m.date /\ t.sec < m.sec

-----------------------------------------------------------------------------
(* citizen.py, bank_account.py: the objects and their to_dict *)

\* Citizen.__init__ and Citizen.to_dict
Citizen(pan_number, name, dob, address) ==
    [pan_number |-> pan_number, name |-> name, dob |-> dob, address |-> address]

\* Transaction.__init__: u is the number of uuid4() values drawn before it
Transaction(account_no, amount, transaction_type, description, t, u) ==
    [transaction_id |-> u + 1,
     account_no |-> account_no,
     amount |-> amount,
     transaction_type |-> transaction_type,
     description |-> description,
     timestamp |-> t,
     status |-> "completed"]

\* Transaction.to_dict
TransactionToDict(tx) == tx

\* interest rates are held in tenths of a percent: 3.5 is 35
SavingsDefaultRate == 35
FixedDepositDefaultRate == 65
SavingsMinBalance == 1000
CurrentOverdraftFee == 100
\* early_withdrawal_penalty, in percent
EarlyWithdrawalPenalty == 1
DefaultTermMonths == 12

\* BankAccount.__init__
BankAccount(account_no, pan_number, balance, branch_name, t) ==
    [account_no |-> account_no,
     pan_number |-> pan_number,
     balance |-> balance,
     branch_name |-> branch_name,
     account_type |-> "generic",
     open_date |-> t,
     status |-> "active",
     transactions |-> << >>]

\* a record extended (or overwritten) field by field: dict.update and attribute stores
Extend(r, s) ==
    [k \in DOMAIN r \cup DOMAIN s |-> IF k \in DOMAIN s THEN s[k] ELSE r[k]]

\* SavingsAccount.__init__
SavingsAccount(account_no, pan_number, balance, branch_name, interest_rate, t) ==
    Extend(BankAccount(account_no, pan_number, balance, branch_name, t),
           [account_type |-> "savings",
            interest_rate |-> interest_rate,
            min_balance |-> SavingsMinBalance])

\* CurrentAccount.__init__
CurrentAccount(account_no, pan_number, balance, branch_name, overdraft_limit, t) ==
    Extend(BankAccount(account_no, pan_number, balance, branch_name, t),
           [account_type |-> "current",
            overdraft_limit |-> overdraft_limit,
            overdraft_fee |-> CurrentOverdraftFee])

\* datetime(year, month, day) raises ValueError for a day the month does not have
DaysInMonth(y, m) ==
    IF m \in {4, 6, 9, 11} THEN 30
    ELSE IF m # 2 THEN 31
    ELSE IF (y % 4 = 0 /\ y % 100 # 0) \/ y % 400 = 0 THEN 29 ELSE 28

\* FixedDepositAccount._calculate_maturity_date: [ok, date]; ok is false when
\* datetime(...) raises ValueError
calculate_maturity_date(open_date, term_months) ==
    LET maturity_month0 == open_date.date[2] + term_months
        maturity_year == open_date.date[1] + ((maturity_month0 - 1) \div 12)
        maturity_month == ((maturity_month0 - 1) % 12) + 1
        day == open_date.date[3]
    IN  [ok |-> day <= DaysInMonth(maturity_year, maturity_month),
         date |-> [date |-> <<maturity_year, maturity_month, day>>, sec |-> 0]]

\* FixedDepositAccount.__init__ (when the maturity date exists)
FixedDepositAccount(account_no, pan_number, balance, branch_name, term_months, interest_rate, t) ==
    Extend(BankAccount(account_no, pan_number, balance, branch_name, t),
           [account_type |-> "fixed_deposit",
            term_months |-> term_months,
            interest_rate |-> interest_rate,
            maturity_date |-> calculate_maturity_date(t, term_months).date,
            early_withdrawal_penalty |-> EarlyWithdrawalPenalty])

\* BankAccount.to_dict
BankAccountToDict(self) ==
    [account_no |-> self.account_no,
     pan_number |-> self.pan_number,
     balance |-> self.balance,
     branch_name |-> self.branch_name,
     account_type |-> self.account_type,
     open_date |-> self.open_date,
     status |-> self.status]

\* SavingsAccount.to_dict, CurrentAccount.to_dict, FixedDepositAccount.to_dict
AccountToDict(self) ==
    CASE self.account_type = "savings" ->
           Extend(BankAccountToDict(self),
                  [interest_rate |-> self.interest_rate,
                   min_balance |-> self.min_balance])
      [] self.account_type = "current" ->
           Extend(BankAccountToDict(self),
                  [overdraft_limit |-> self.overdraft_limit,
                   overdraft_fee |-> self.overdraft_fee])
      [] self.account_type = "fixed_deposit" ->
           Extend(BankAccountToDict(self),
                  [term_months |-> self.term_months,
                   interest_rate |-> self.interest_rate,
                   maturity_date |-> self.maturity_date,
                   early_withdrawal_penalty |-> self.early_withdrawal_penalty])

-----------------------------------------------------------------------------
(* bank_account.py: deposit and withdraw.  A method is an operator from the *)
(* object self, its arguments, the time t and the uuid count u to           *)
(* [self, raised, ret, uuid]: the object afterwards, the error raised       *)
(* ("none" when it returns), the Transaction returned (a sequence of 0 or   *)
(* 1) and the uuid count afterwards.                                        *)

Raise(self, error, u) ==
    [self |-> self, raised |-> error, ret |-> << >>, uuid |-> u]

\* a deposit that refuses only the negative amounts
BankAccount_deposit_NonNegative(self, amount, description, t, u) ==
    IF amount < 0
    THEN Raise(self, "InvalidAmount", u)
    ELSE LET transaction == Transaction(self.account_no, amount, "deposit", description, t, u)
         IN  [self |-> [self EXCEPT !.balance = @ + amount,
                                    !.transactions = Append(@, transaction)],
              raised |-> "none",
              ret |-> <<transaction>>,
              uuid |-> u + 1]

\* BankAccount.deposit
BankAccount_deposit(self, amount, description, t, u) ==
    IF amount <= 0
    THEN Raise(self, "InvalidAmount", u)
    ELSE LET transaction == Transaction(self.account_no, amount, "deposit", description, t, u)
         IN  [self |-> [self EXCEPT !.balance = @ + amount,
                                    !.transactions = Append(@, transaction)],
              raised |-> "none",
              ret |-> <<transaction>>,
              uuid |-> u + 1]

\* BankAccount.withdraw
BankAccount_withdraw(self, amount, description, t, u) ==
    IF amount <= 0
    THEN Raise(self, "InvalidAmount", u)
    ELSE IF amount > self.balance
    THEN Raise(self, "InsufficientFunds", u)
    ELSE LET transaction == Transaction(self.account_no, amount, "withdrawal", description, t, u)
         IN  [self |-> [self EXCEPT !.balance = @ - amount,
                                    !.transactions = Append(@, transaction)],
              raised |-> "none",
              ret |-> <<transaction>>,
              uuid |-> u + 1]

\* a minimum-balance test that forgets the amount
SavingsBelowMinimum_NoAmount(self, amount) ==
    self.balance < self.min_balance

\* SavingsAccount.withdraw, the minimum-balance test
SavingsBelowMinimum(self, amount) ==
    self.balance - amount < self.min_balance

\* SavingsAccount.withdraw
SavingsAccount_withdraw(self, amount, description, t, u) ==
    IF SavingsBelowMinimum(self, amount)
    THEN Raise(self, "MinimumBalanceViolation", u)
    ELSE BankAccount_withdraw(self, amount, description, t, u)

\* CurrentAccount.withdraw, the overdraft-limit test
CurrentExceedsLimit(self, amount) ==
    amount > (self.balance + self.overdraft_limit)

\* a fee test that also charges a withdrawal of the whole balance
CurrentUsesOverdraft_Geq(self, amount) ==
    amount >= self.balance

\* CurrentAccount.withdraw, the test that charges the overdraft fee
CurrentUsesOverdraft(self, amount) ==
    amount > self.balance

\* CurrentAccount.withdraw, the fee branch: the fee Transaction is appended
\* and the fee debited
CurrentChargeFee(self, t, u) ==
    LET fee_transaction == Transaction(self.account_no, self.overdraft_fee, "fee", "Overdraft fee", t, u)
    IN  [self EXCEPT !.transactions = Append(@, fee_transaction),
                     !.balance = @ - self.overdraft_fee]

\* CurrentAccount.withdraw
CurrentAccount_withdraw(self, amount, description, t, u) ==
    IF amount <= 0
    THEN Raise(self, "InvalidAmount", u)
    ELSE IF CurrentExceedsLimit(self, amount)
    THEN Raise(self, "OverdraftExceeded", u)
    ELSE LET fee == CurrentUsesOverdraft(self, amount)
             description1 == IF fee THEN description \o " (with overdraft)" ELSE description
             self1 == IF fee THEN CurrentChargeFee(self, t, u) ELSE self
             u1 == IF fee THEN u + 1 ELSE u
             transaction == Transaction(self.account_no, amount, "withdrawal", description1, t, u1)
         IN  [self |-> [self1 EXCEPT !.balance = @ - amount,
                                     !.transactions = Append(@, transaction)],
              raised |-> "none",
              ret |-> <<transaction>>,
              uuid |-> u1 + 1]

\* FixedDepositAccount.withdraw, the maturity test on isoformat strings
BeforeMaturity(self, t) ==
    IsoLess(t, self.maturity_date)

\* a penalty of amount * penalty, the percentage not divided by 100
PenaltyAmount_Whole(self, amount) ==
    amount * self.early_withdrawal_penalty

\* FixedDepositAccount.withdraw: penalty_amount = amount * (penalty / 100)
PenaltyAmount(self, amount) ==
    (amount * self.early_withdrawal_penalty) \div 100

\* FixedDepositAccount.withdraw
FixedDepositAccount_withdraw(self, amount, description, t, u) ==
    IF BeforeMaturity(self, t)
    THEN LET penalty_amount == PenaltyAmount(self, amount)
             description1 == description \o " (Early withdrawal penalty: " \o ToString(penalty_amount) \o ")"
             penalty_transaction == Transaction(self.account_no, penalty_amount, "fee", "Early withdrawal penalty", t, u)
             self1 == [self EXCEPT !.transactions = Append(@, penalty_transaction),
                                   !.balance = @ - penalty_amount]
         IN  BankAccount_withdraw(self1, amount, description1, t, u + 1)
    ELSE BankAccount_withdraw(self, amount, description, t, u)

\* the method an object's class binds: deposit is inherited by every variant
Deposit(self, amount, description, t, u) ==
    BankAccount_deposit(self, amount, description, t, u)

Withdraw(self, amount, description, t, u) ==
    CASE self.account_type = "savings" -> SavingsAccount_withdraw(self, amount, description, t, u)
      [] self.account_type = "current" -> CurrentAccount_withdraw(self, amount, description, t, u)
      [] self.account_type = "fixed_deposit" -> FixedDepositAccount_withdraw(self, amount, description, t, u)

RECURSIVE GCD(_, _)
GCD(a, b) == IF b = 0 THEN a ELSE GCD(b, a % b)

\* calculate_interest returns a float; the model returns the exact value as
\* the fraction [num, den] in lowest terms, den > 0 (rates are held in tenths
\* of a percent)
Fraction(num, den) ==
    LET g == GCD(IF num < 0 THEN - num ELSE num, den)
    IN  [num |-> num \div g, den |-> den \div g]

\* SavingsAccount.calculate_interest: balance * (interest_rate / 100)
SavingsAccount_calculate_interest(self) ==
    Fraction(self.balance * self.interest_rate, 1000)

\* CurrentAccount.calculate_interest
CurrentAccount_calculate_interest(self) ==
    Fraction(0, 1)

\* an interest at maturity that forgets the term
FixedDepositAccount_calculate_interest_NoTerm(self) ==
    Fraction(self.balance * self.interest_rate, 1000)

\* FixedDepositAccount.calculate_interest:
\* balance * (interest_rate / 100) * (term_months / 12)
FixedDepositAccount_calculate_interest(self) ==
    Fraction(self.balance * self.interest_rate * self.term_months, 1000 * 12)

\* calculate_interest of the object's class: [self, ret]
CalculateInterest(self) ==
    [self |-> self,
     ret |-> CASE self.account_type = "savings" -> SavingsAccount_calculate_interest(self)
               [] self.account_type = "current" -> CurrentAccount_calculate_interest(self)
               [] self.account_type = "fixed_deposit" -> FixedDepositAccount_calculate_interest(self)]

-----------------------------------------------------------------------------
(* database.py: the files.  A file is absent or holds a text; a text is a   *)
(* JSON document, whole or cut short (a proper prefix of a JSON object is   *)
(* never a JSON document).                                                  *)

Absent == [exists |-> FALSE]
File(text, whole) == [exists |-> TRUE, text |-> text, whole |-> whole]

\* the fields whose Python values are numbers; every other field holds a str
NumberFields ==
    {"balance", "amount", "interest_rate", "min_balance", "overdraft_limit",
     "overdraft_fee", "term_months", "early_withdrawal_penalty"}

\* json.dump of one dict: a JSON object whose members are tagged by JSON type
JsonObject(d) ==
    [k \in DOMAIN d |-> IF k \in NumberFields THEN [number |-> d[k]] ELSE [string |-> d[k]]]

\* json.dump(data, f, indent=4): an object of arrays of objects
json_dump(d) ==
    [k \in DOMAIN d |-> [i \in DOMAIN d[k] |-> JsonObject(d[k][i])]]

\* json.load of one JSON object
PyDict(o) ==
    [k \in DOMAIN o |-> IF "number" \in DOMAIN o[k] THEN o[k].number ELSE o[k].string]

\* json.load(f) of a whole document
json_load(text) ==
    [k \in DOMAIN text |-> [i \in DOMAIN text[k] |-> PyDict(text[k][i])]]

EmptyDatabase == [citizens |-> << >>, accounts |-> << >>, transactions |-> << >>]

\* a load that empties the collections that are present
EnsureKeys_Overwrite(d) ==
    [k \in DOMAIN d \cup {"citizens", "accounts", "transactions"} |->
        IF k \in {"citizens", "accounts", "transactions"} THEN << >> ELSE d[k]]

\* load_database, the "Ensure all required keys exist" part
EnsureKeys(d) ==
    [k \in DOMAIN d \cup {"citizens", "accounts", "transactions"} |->
        IF k \in DOMAIN d THEN d[k] ELSE << >>]

\* a load that answers an unparsable file with the empty database
load_database_Reset(fs) ==
    IF ~ fs.db_file.exists \/ ~ fs.db_file.whole
    THEN [ok |-> TRUE, data |-> EmptyDatabase]
    ELSE [ok |-> TRUE, data |-> EnsureKeys(json_load(fs.db_file.text))]

\* load_database: [ok, data]; ok is false when DatabaseError is raised
load_database(fs) ==
    IF ~ fs.db_file.exists
    THEN [ok |-> TRUE, data |-> EmptyDatabase]
    ELSE IF ~ fs.db_file.whole
    THEN [ok |-> FALSE, data |-> EmptyDatabase]
    ELSE [ok |-> TRUE, data |-> EnsureKeys(json_load(fs.db_file.text))]

\* create_backup: os.makedirs(BACKUP_DIR) when it does not exist, then
\* database_backup_<%Y%m%d_%H%M%S>.json, opened with "w"
create_backup(fs, t) ==
    IF ~ fs.db_file.exists
    THEN fs
    ELSE [fs EXCEPT !.backup_dir = TRUE,
                    !.backups =
                       [n \in DOMAIN fs.backups \cup {t} |->
                           IF n = t THEN fs.db_file ELSE fs.backups[n]]]

\* create_backup: open(backup_file, "w") has created or emptied the backup
\* file and dst.write has not finished
OpenBackup(fs, t) ==
    IF ~ fs.db_file.exists
    THEN fs
    ELSE [fs EXCEPT !.backup_dir = TRUE,
                    !.backups =
                       [n \in DOMAIN fs.backups \cup {t} |->
                           IF n = t THEN File(fs.db_file.text, FALSE) ELSE fs.backups[n]]]

\* the steps of create_backup that can fail: os.makedirs, open(DB_FILE, "r")
\* and dst.write
BackupFaults == {"makedirs", "read", "write"}

\* the steps of save_database that can fail: json.dump and os.replace
SaveFaults == {"dump", "replace"}

\* the failures that can happen to a save over the files fs: create_backup
\* returns at once when DB_FILE does not exist, and calls os.makedirs only
\* when BACKUP_DIR does not exist
PossibleFaults(fs) ==
    {"none"} \cup SaveFaults
        \cup (IF fs.db_file.exists THEN {"read", "write"} ELSE {})
        \cup (IF fs.db_file.exists /\ ~ fs.backup_dir THEN {"makedirs"} ELSE {})

\* create_backup when the step fault fails: [disk, raised].  os.makedirs is
\* outside the try block, so its error leaves create_backup; an error of
\* open(DB_FILE, "r") or of dst.write is caught and logged, the second after
\* open(backup_file, "w") has created the backup file
create_backup_with(fs, t, fault) ==
    IF ~ fs.db_file.exists
    THEN [disk |-> fs, raised |-> "none"]
    ELSE IF fault = "makedirs" /\ ~ fs.backup_dir
    THEN [disk |-> fs, raised |-> "OSError"]
    ELSE IF fault = "read"
    THEN [disk |-> [fs EXCEPT !.backup_dir = TRUE], raised |-> "none"]
    ELSE IF fault = "write"
    THEN [disk |-> OpenBackup(fs, t), raised |-> "none"]
    ELSE [disk |-> create_backup(fs, t), raised |-> "none"]

\* a save that opens DB_FILE itself for writing
OpenTemp_InPlace(fs, d) ==
    [fs EXCEPT !.db_file = File(json_dump(d), FALSE)]

\* save_database: open(temp_file, "w") has created or emptied the temporary
\* file and json.dump has not finished
OpenTemp(fs, d) ==
    [fs EXCEPT !.temp_file = File(json_dump(d), FALSE)]

\* save_database: with open(temp_file, "w") as f: json.dump(data, f, indent=4)
WriteTemp(fs, d) ==
    [fs EXCEPT !.temp_file = File(json_dump(d), TRUE)]

\* save_database: os.replace(temp_file, DB_FILE)
Replace(fs) ==
    [fs EXCEPT !.db_file = fs.temp_file, !.temp_file = Absent]

\* save_database, run to its end
save_database(fs, d, t) ==
    Replace(WriteTemp(create_backup(fs, t), d))

\* save_database, the except block: os.path.exists(temp_file), os.remove
RemoveTemp(fs) ==
    [fs EXCEPT !.temp_file = Absent]

\* save_database when the step fault fails: [disk, raised].  An error that
\* leaves create_backup reaches the except block before temp_file is
\* assigned: os.path.exists(temp_file) raises UnboundLocalError in place of
\* DatabaseError
save_database_with(fs, d, t, fault) ==
    LET backed == create_backup_with(fs, t, fault)
    IN  IF backed.raised # "none"
        THEN [disk |-> backed.disk, raised |-> "UnboundLocalError"]
        ELSE IF fault = "dump"
        THEN [disk |-> RemoveTemp(OpenTemp(backed.disk, d)), raised |-> "DatabaseError"]
        ELSE IF fault = "replace"
        THEN [disk |-> RemoveTemp(WriteTemp(backed.disk, d)), raised |-> "DatabaseError"]
        ELSE [disk |-> Replace(WriteTemp(backed.disk, d)), raised |-> "none"]

-----------------------------------------------------------------------------
(* database.py: the handlers.  A handler is an operator from the file      *)
(* system fs, its arguments and the time t to [disk, result].              *)

Report(fs, result) == [disk |-> fs, result |-> result]

\* the index of the first dict of s whose field key equals value, or 0
FirstMatch(s, key, value) ==
    LET I == {i \in DOMAIN s : s[i][key] = value}
    IN  IF I = {} THEN 0 ELSE CHOOSE i \in I : \A j \in I : i <= j

\* a lookup that returns the first citizen without comparing the key
find_citizen_by_pan_Any(fs, pan_number) ==
    LET db == load_database(fs)
    IN  IF ~ db.ok THEN [ok |-> FALSE, found |-> << >>]
        ELSE [ok |-> TRUE,
              found |-> IF db.data.citizens = << >> THEN << >> ELSE <<db.data.citizens[1]>>]

\* find_citizen_by_pan: [ok, found]; found holds the dict, or nothing for None
find_citizen_by_pan(fs, pan_number) ==
    LET db == load_database(fs)
        i == FirstMatch(db.data.citizens, "pan_number", pan_number)
    IN  IF ~ db.ok THEN [ok |-> FALSE, found |-> << >>]
        ELSE [ok |-> TRUE, found |-> IF i = 0 THEN << >> ELSE <<db.data.citizens[i]>>]

\* a lookup that never finds the account
find_account_by_number_Blind(fs, account_no) ==
    [ok |-> load_database(fs).ok, found |-> << >>]

\* find_account_by_number
find_account_by_number(fs, account_no) ==
    LET db == load_database(fs)
        i == FirstMatch(db.data.accounts, "account_no", account_no)
    IN  IF ~ db.ok THEN [ok |-> FALSE, found |-> << >>]
        ELSE [ok |-> TRUE, found |-> IF i = 0 THEN << >> ELSE <<db.data.accounts[i]>>]

\* an append that puts the new dict first
AppendAndSave_Front(fs, collection, d, t) ==
    LET db == load_database(fs)
    IN  IF ~ db.ok
        THEN Report(fs, "DatabaseError")
        ELSE Report(save_database(fs, [db.data EXCEPT ![collection] = <<d>> \o @], t), "True")

\* the load-append-save block of add_citizen, add_account and
\* record_transaction
AppendAndSave(fs, collection, d, t) ==
    LET db == load_database(fs)
    IN  IF ~ db.ok
        THEN Report(fs, "DatabaseError")
        ELSE Report(save_database(fs, [db.data EXCEPT ![collection] = Append(@, d)], t), "True")

\* add_citizen
add_citizen(fs, citizen, t) ==
    IF ~ validate_pan(citizen.pan_number)
    THEN Report(fs, "InvalidFormat")
    ELSE LET existing == find_citizen_by_pan(fs, citizen.pan_number)
         IN  IF ~ existing.ok THEN Report(fs, "DatabaseError")
             ELSE IF existing.found # << >> THEN Report(fs, "DuplicateKey")
             ELSE AppendAndSave(fs, "citizens", citizen, t)

\* add_account, whose argument is the account object
add_account(fs, acct, t) ==
    IF ~ validate_account_number(acct.account_no)
    THEN Report(fs, "InvalidFormat")
    ELSE LET existing == find_account_by_number(fs, acct.account_no)
         IN  IF ~ existing.ok THEN Report(fs, "DatabaseError")
             ELSE IF existing.found # << >> THEN Report(fs, "DuplicateKey")
             ELSE LET citizen == find_citizen_by_pan(fs, acct.pan_number)
                  IN  IF ~ citizen.ok THEN Report(fs, "DatabaseError")
                      ELSE IF citizen.found = << >> THEN Report(fs, "UnknownReference")
                      ELSE AppendAndSave(fs, "accounts", AccountToDict(acct), t)

\* an update that merges updated_data into the stored dict
UpdateAndSave_Merge(fs, collection, key, value, updated_data, t) ==
    LET db == load_database(fs)
        i == FirstMatch(db.data[collection], key, value)
        replacement == Extend(db.data[collection][i], Extend(updated_data, [k \in {key} |-> value]))
    IN  IF ~ db.ok THEN Report(fs, "DatabaseError")
        ELSE IF i = 0 THEN Report(fs, "False")
        ELSE Report(save_database(fs, [db.data EXCEPT ![collection][i] = replacement], t), "True")

\* an update that appends updated_data when the key is not stored
UpdateAndSave_Upsert(fs, collection, key, value, updated_data, t) ==
    LET db == load_database(fs)
        i == FirstMatch(db.data[collection], key, value)
        replacement == Extend(updated_data, [k \in {key} |-> value])
    IN  IF ~ db.ok THEN Report(fs, "DatabaseError")
        ELSE IF i = 0
        THEN Report(save_database(fs, [db.data EXCEPT ![collection] = Append(@, replacement)], t), "True")
        ELSE Report(save_database(fs, [db.data EXCEPT ![collection][i] = replacement], t), "True")

\* the loop of update_citizen and update_account: the first dict with the key
\* is replaced by updated_data with the key set back onto it
UpdateAndSave(fs, collection, key, value, updated_data, t) ==
    LET db == load_database(fs)
        i == FirstMatch(db.data[collection], key, value)
        replacement == Extend(updated_data, [k \in {key} |-> value])
    IN  IF ~ db.ok THEN Report(fs, "DatabaseError")
        ELSE IF i = 0 THEN Report(fs, "False")
        ELSE Report(save_database(fs, [db.data EXCEPT ![collection][i] = replacement], t), "True")

\* update_citizen
update_citizen(fs, pan_number, updated_data, t) ==
    UpdateAndSave(fs, "citizens", "pan_number", pan_number, updated_data, t)

\* update_account
update_account(fs, account_no, updated_data, t) ==
    UpdateAndSave(fs, "accounts", "account_no", account_no, updated_data, t)

\* a delete that, when the key is stored, empties the collection
DeleteAndSave_All(fs, collection, key, value, t) ==
    LET db == load_database(fs)
        kept == SelectSeq(db.data[collection], LAMBDA c : c[key] # value)
    IN  IF ~ db.ok THEN Report(fs, "DatabaseError")
        ELSE IF Len(kept) < Len(db.data[collection])
        THEN Report(save_database(fs, [db.data EXCEPT ![collection] = << >>], t), "True")
        ELSE Report(fs, "False")

\* a delete that also removes the Transactions of the account deleted
DeleteAndSave_Cascade(fs, collection, key, value, t) ==
    LET db == load_database(fs)
        kept == SelectSeq(db.data[collection], LAMBDA c : c[key] # value)
        ledger == SelectSeq(db.data.transactions, LAMBDA x : x.account_no # value)
    IN  IF ~ db.ok THEN Report(fs, "DatabaseError")
        ELSE IF Len(kept) < Len(db.data[collection])
        THEN Report(save_database(fs, [db.data EXCEPT ![collection] = kept, !.transactions = ledger], t), "True")
        ELSE Report(fs, "False")

\* the body of delete_citizen and delete_account
DeleteAndSave(fs, collection, key, value, t) ==
    LET db == load_database(fs)
        kept == SelectSeq(db.data[collection], LAMBDA c : c[key] # value)
    IN  IF ~ db.ok THEN Report(fs, "DatabaseError")
        ELSE IF Len(kept) < Len(db.data[collection])
        THEN Report(save_database(fs, [db.data EXCEPT ![collection] = kept], t), "True")
        ELSE Report(fs, "False")

\* delete_citizen
delete_citizen(fs, pan_number, t) ==
    DeleteAndSave(fs, "citizens", "pan_number", pan_number, t)

\* delete_account
delete_account(fs, account_no, t) ==
    DeleteAndSave(fs, "accounts", "account_no", account_no, t)

\* record_transaction
record_transaction(fs, transaction, t) ==
    AppendAndSave(fs, "transactions", TransactionToDict(transaction), t)

\* get_all_citizens: [ok, found]; found is the list returned
get_all_citizens(fs) ==
    LET db == load_database(fs)
    IN  IF ~ db.ok THEN [ok |-> FALSE, found |-> << >>]
        ELSE [ok |-> TRUE, found |-> db.data.citizens]

\* get_all_accounts
get_all_accounts(fs) ==
    LET db == load_database(fs)
    IN  IF ~ db.ok THEN [ok |-> FALSE, found |-> << >>]
        ELSE [ok |-> TRUE, found |-> db.data.accounts]

\* get_accounts_by_pan
get_accounts_by_pan(fs, pan_number) ==
    LET db == load_database(fs)
    IN  IF ~ db.ok THEN [ok |-> FALSE, found |-> << >>]
        ELSE [ok |-> TRUE,
              found |-> SelectSeq(db.data.accounts, LAMBDA a : a.pan_number = pan_number)]

-----------------------------------------------------------------------------
(* main.py: deposit_money and withdraw_money *)

\* dict.get(key, default)
Get(d, key, default) == IF key \in DOMAIN d THEN d[key] ELSE default

\* FixedDepositAccount(...) of deposit_money and withdraw_money: [ok, obj];
\* ok is false when the constructor raises ValueError
RebuildFixedDeposit(account_data, t) ==
    LET term_months == Get(account_data, "term_months", DefaultTermMonths)
    IN  [ok |-> calculate_maturity_date(t, term_months).ok,
         obj |-> FixedDepositAccount(account_data.account_no, account_data.pan_number,
                    account_data.balance, account_data.branch_name, term_months,
                    Get(account_data, "interest_rate", FixedDepositDefaultRate), t)]

\* deposit_money, "Create appropriate account object based on type"
RebuildForDeposit(account_data, t) ==
    CASE account_data.account_type = "savings" ->
           [ok |-> TRUE,
            obj |-> SavingsAccount(account_data.account_no, account_data.pan_number,
                       account_data.balance, account_data.branch_name, SavingsDefaultRate, t)]
      [] account_data.account_type = "current" ->
           [ok |-> TRUE,
            obj |-> CurrentAccount(account_data.account_no, account_data.pan_number,
                       account_data.balance, account_data.branch_name,
                       Get(account_data, "overdraft_limit", 0), t)]
      [] account_data.account_type = "fixed_deposit" -> RebuildFixedDeposit(account_data, t)

\* withdraw_money, "Create appropriate account object based on type"
RebuildForWithdraw(account_data, t) ==
    CASE account_data.account_type = "savings" ->
           [ok |-> TRUE,
            obj |-> [SavingsAccount(account_data.account_no, account_data.pan_number,
                        account_data.balance, account_data.branch_name,
                        Get(account_data, "interest_rate", SavingsDefaultRate), t)
                     EXCEPT !.min_balance = Get(account_data, "min_balance", SavingsMinBalance)]]
      [] account_data.account_type = "current" ->
           [ok |-> TRUE,
            obj |-> CurrentAccount(account_data.account_no, account_data.pan_number,
                       account_data.balance, account_data.branch_name,
                       Get(account_data, "overdraft_limit", 0), t)]
      [] account_data.account_type = "fixed_deposit" -> RebuildFixedDeposit(account_data, t)

AccountTypes == {"savings", "current", "fixed_deposit"}

\* the keys of account_data that are subscripted: a missing one raises KeyError
RebuildKeys == {"account_type", "account_no", "pan_number", "balance", "branch_name"}

FlowReport(fs, result, u) == [disk |-> fs, result |-> result, uuid |-> u]

\* what withdraw_money and deposit_money hand to record_transaction: the
\* Transaction the method returned
Recorded(m) == m.ret

\* the tail of deposit_money and withdraw_money: update_account, then
\* record_transaction for each Transaction handed over, at the time t2
UpdateAndRecord(fs, acc_no, m, t, t2) ==
    LET updated == update_account(fs, acc_no, AccountToDict(m.self), t)
        recorded == record_transaction(updated.disk, Recorded(m)[1], t2)
    IN  IF updated.result = "DatabaseError"
        THEN FlowReport(updated.disk, "DatabaseError", m.uuid)
        ELSE IF recorded.result = "DatabaseError"
        THEN FlowReport(recorded.disk, "DatabaseError", m.uuid)
        ELSE FlowReport(recorded.disk, "ok", m.uuid)

\* deposit_money
deposit_money(fs, acc_no, amount, t, t2, u) ==
    LET account_data == find_account_by_number(fs, acc_no)
        rebuilt == RebuildForDeposit(account_data.found[1], t)
        m == Deposit(rebuilt.obj, amount, "Deposit", t, u)
    IN  IF ~ account_data.ok THEN FlowReport(fs, "DatabaseError", u)
        ELSE IF account_data.found = << >> THEN FlowReport(fs, "AccountNotFound", u)
        ELSE IF ~ (RebuildKeys \subseteq DOMAIN account_data.found[1])
        THEN FlowReport(fs, "KeyError", u)
        ELSE IF account_data.found[1].account_type \notin AccountTypes
        THEN FlowReport(fs, "UnknownAccountType", u)
        ELSE IF ~ rebuilt.ok THEN FlowReport(fs, "ValueError", u)
        ELSE IF m.raised # "none" THEN FlowReport(fs, m.raised, m.uuid)
        ELSE UpdateAndRecord(fs, acc_no, m, t, t2)

\* withdraw_money
withdraw_money(fs, acc_no, amount, t, t2, u) ==
    LET account_data == find_account_by_number(fs, acc_no)
        rebuilt == RebuildForWithdraw(account_data.found[1], t)
        m == Withdraw(rebuilt.obj, amount, "Withdrawal", t, u)
    IN  IF ~ account_data.ok THEN FlowReport(fs, "DatabaseError", u)
        ELSE IF account_data.found = << >> THEN FlowReport(fs, "AccountNotFound", u)
        ELSE IF ~ (RebuildKeys \subseteq DOMAIN account_data.found[1])
        THEN FlowReport(fs, "KeyError", u)
        ELSE IF account_data.found[1].account_type \notin AccountTypes
        THEN FlowReport(fs, "UnknownAccountType", u)
        ELSE IF ~ rebuilt.ok THEN FlowReport(fs, "ValueError", u)
        ELSE IF m.raised # "none" THEN FlowReport(fs, m.raised, m.uuid)
        ELSE UpdateAndRecord(fs, acc_no, m, t, t2)

-----------------------------------------------------------------------------
(* The store used by one writer: every handler runs from start to end *)

NoAccount == [account_type |-> "none"]
NoCall == [n |-> 0, op |-> "none", arg |-> [none |-> TRUE], result |-> "none"]
EmptyDisk == [db_file |-> Absent, temp_file |-> Absent, backup_dir |-> FALSE, backups |-> << >>]

Call(op, arg, result) == [n |-> last.n + 1, op |-> op, arg |-> arg, result |-> result]

\* the clock one second later, within the model's seconds
Later(t) == IF t.sec < MaxSec THEN {[t EXCEPT !.sec = @ + 1]} ELSE {}

Init ==
    /\ disk = EmptyDisk
    /\ now = [date |-> Calendar[1], sec |-> 0]
    /\ uuid = 0
    /\ last = NoCall
    /\ account = NoAccount
    /\ pc = "idle"
    /\ data = EmptyDatabase

Tick ==
    /\ \E t \in Later(now) : now' = t
    /\ UNCHANGED <<disk, uuid, last, account, pc, data>>

NextDay ==
    /\ \E i \in 1..(Len(Calendar) - 1) :
          /\ Calendar[i] = now.date
          /\ now' = [date |-> Calendar[i + 1], sec |-> 0]
    /\ UNCHANGED <<disk, uuid, last, account, pc, data>>

\* the account objects create_account of main.py builds at time t
NewAccounts(acc_no, pan_number, t) ==
    { SavingsAccount(acc_no, pan_number, 1500, "Main", SavingsDefaultRate, t),
      CurrentAccount(acc_no, pan_number, 500, "Main", 200, t),
      FixedDepositAccount(acc_no, pan_number, 1000, "Main", DefaultTermMonths, FixedDepositDefaultRate, t) }

\* the dicts update_citizen is called with: another key and other values;
\* fewer fields
CitizenUpdates ==
    { Citizen(PAN2, "n2", "1990-01-01", "addr"), [name |-> "n3"] }

\* the dicts update_account is called with
AccountUpdates ==
    { [account_no |-> ACC2, pan_number |-> PAN2, balance |-> 0, branch_name |-> "Main",
       account_type |-> "current", overdraft_limit |-> 0],
      [balance |-> 0] }

DepositAmounts == {0, 500}
WithdrawAmounts == {100, 600}

AddCitizen ==
    \E pan_number \in PanInputs :
       LET citizen == Citizen(pan_number, "n1", "1990-01-01", "addr")
           r == add_citizen(disk, citizen, now)
       IN  /\ last.n < MaxOps
           /\ disk' = r.disk
           /\ last' = Call("add_citizen", citizen, r.result)
           /\ UNCHANGED <<now, uuid, account, pc, data>>

AddAccount ==
    \E account_no \in AccInputs, pan_number \in {PAN1, PAN2} :
       \E acct \in NewAccounts(account_no, pan_number, now) :
          LET r == add_account(disk, acct, now)
          IN  /\ last.n < MaxOps
              /\ disk' = r.disk
              /\ last' = Call("add_account", AccountToDict(acct), r.result)
              /\ UNCHANGED <<now, uuid, account, pc, data>>

UpdateCitizen ==
    \E pan_number \in {PAN1, PAN2}, updated_data \in CitizenUpdates :
       LET r == update_citizen(disk, pan_number, updated_data, now)
       IN  /\ last.n < MaxOps
           /\ disk' = r.disk
           /\ last' = Call("update_citizen", [key |-> pan_number, updated_data |-> updated_data], r.result)
           /\ UNCHANGED <<now, uuid, account, pc, data>>

UpdateAccount ==
    \E account_no \in {ACC1, ACC2}, updated_data \in AccountUpdates :
       LET r == update_account(disk, account_no, updated_data, now)
       IN  /\ last.n < MaxOps
           /\ disk' = r.disk
           /\ last' = Call("update_account", [key |-> account_no, updated_data |-> updated_data], r.result)
           /\ UNCHANGED <<now, uuid, account, pc, data>>

DeleteCitizen ==
    \E pan_number \in {PAN1, PAN2} :
       LET r == delete_citizen(disk, pan_number, now)
       IN  /\ last.n < MaxOps
           /\ disk' = r.disk
           /\ last' = Call("delete_citizen", [key |-> pan_number], r.result)
           /\ UNCHANGED <<now, uuid, account, pc, data>>

DeleteAccount ==
    \E account_no \in {ACC1, ACC2} :
       LET r == delete_account(disk, account_no, now)
       IN  /\ last.n < MaxOps
           /\ disk' = r.disk
           /\ last' = Call("delete_account", [key |-> account_no], r.result)
           /\ UNCHANGED <<now, uuid, account, pc, data>>

DepositMoney ==
    \E acc_no \in {ACC1, ACC2}, amount \in DepositAmounts, t2 \in {now} \cup Later(now) :
       LET r == deposit_money(disk, acc_no, amount, now, t2, uuid)
       IN  /\ last.n < MaxOps
           /\ disk' = r.disk
           /\ uuid' = r.uuid
           /\ now' = IF r.result = "ok" THEN t2 ELSE now
           /\ last' = Call("deposit_money", [key |-> acc_no, amount |-> amount], r.result)
           /\ UNCHANGED <<account, pc, data>>

WithdrawMoney ==
    \E acc_no \in {ACC1, ACC2}, amount \in WithdrawAmounts, t2 \in {now} \cup Later(now) :
       LET r == withdraw_money(disk, acc_no, amount, now, t2, uuid)
       IN  /\ last.n < MaxOps
           /\ disk' = r.disk
           /\ uuid' = r.uuid
           /\ now' = IF r.result = "ok" THEN t2 ELSE now
           /\ last' = Call("withdraw_money", [key |-> acc_no, amount |-> amount], r.result)
           /\ UNCHANGED <<account, pc, data>>

\* the calls are made within one day (Tick moves the clock by seconds)
Next ==
    \/ Tick
    \/ AddCitizen
    \/ AddAccount
    \/ UpdateCitizen
    \/ UpdateAccount
    \/ DeleteCitizen
    \/ DeleteAccount
    \/ DepositMoney
    \/ WithdrawMoney

Spec == Init /\ [][Next]_vars

-----------------------------------------------------------------------------
(* One live account object and the methods called on it *)

OpenTime == [date |-> Calendar[1], sec |-> 0]

\* the objects the methods are called on: a Savings account below, at and
\* above its minimum balance, a Current account without and with an
\* overdraft limit, a FixedDeposit that matures at once and one of 12 months
AccountObjects ==
    { SavingsAccount(ACC1, PAN1, b, "Main", SavingsDefaultRate, OpenTime) : b \in {500, 1000, 1500} }
    \cup { CurrentAccount(ACC1, PAN1, 500, "Main", l, OpenTime) : l \in {0, 200} }
    \cup { FixedDepositAccount(ACC1, PAN1, 1000, "Main", m, FixedDepositDefaultRate, OpenTime) : m \in {0, DefaultTermMonths} }

Amounts == {-100, 0, 100, 500, 600, 700, 1000}

InitAcct ==
    /\ disk = EmptyDisk
    /\ now = OpenTime
    /\ uuid = 0
    /\ last = NoCall
    /\ account \in AccountObjects
    /\ pc = "idle"
    /\ data = EmptyDatabase

CallDeposit ==
    \E amount \in Amounts :
       LET m == Deposit(account, amount, "Deposit", now, uuid)
       IN  /\ last.n < MaxCalls
           /\ account' = m.self
           /\ uuid' = m.uuid
           /\ last' = Call("deposit", [amount |-> amount], m.raised)
           /\ UNCHANGED <<disk, now, pc, data>>

CallWithdraw ==
    \E amount \in Amounts :
       LET m == Withdraw(account, amount, "Withdrawal", now, uuid)
       IN  /\ last.n < MaxCalls
           /\ account' = m.self
           /\ uuid' = m.uuid
           /\ last' = Call("withdraw", [amount |-> amount], m.raised)
           /\ UNCHANGED <<disk, now, pc, data>>

\* calculate_interest is called; the value returned is kept with the call
CallCalculateInterest ==
    LET m == CalculateInterest(account)
    IN  /\ last.n < MaxCalls
        /\ account' = m.self
        /\ last' = Call("calculate_interest", [returned |-> m.ret], "none")
        /\ UNCHANGED <<disk, now, uuid, pc, data>>

NextAcct ==
    \/ NextDay
    \/ CallDeposit
    \/ CallWithdraw
    \/ CallCalculateInterest

SpecAcct == InitAcct /\ [][NextAcct]_vars

\* a step that is a call
IsCall == last'.n = last.n + 1

-----------------------------------------------------------------------------
(* Claims about the account objects (SpecAcct) *)

\* C6: a deposit or withdraw call that is rejected leaves the balance and the
\* transaction list of the object as they were, for every variant.
C6_RejectedCallChangesNothing ==
    [][ (IsCall /\ last'.result # "none") =>
            /\ account'.balance = account.balance
            /\ account'.transactions = account.transactions ]_vars

\* C7: after every successful withdrawal from a Current account the balance
\* is at least minus the overdraft limit.
C7_BalanceWithinOverdraftLimit ==
    (last.op = "withdraw" /\ last.result = "none" /\ account.account_type = "current")
        => account.balance >= - account.overdraft_limit

\* what C8 says of a Current withdraw of amount from the object before, to
\* the object after: with the fee (two Transactions, fee then withdrawal) ...
WithFee(before, after, amount, result) ==
    LET n == Len(before.transactions)
        tx == after.transactions
    IN  /\ result = "none"
        /\ after.balance = before.balance - (amount + before.overdraft_fee)
        /\ Len(tx) = n + 2
        /\ SubSeq(tx, 1, n) = before.transactions
        /\ tx[n + 1].transaction_type = "fee"
        /\ tx[n + 1].amount = before.overdraft_fee
        /\ tx[n + 2].transaction_type = "withdrawal"
        /\ tx[n + 2].amount = amount

\* ... and without it (the withdrawal Transaction alone)
WithoutFee(before, after, amount, result) ==
    LET n == Len(before.transactions)
        tx == after.transactions
    IN  /\ result = "none"
        /\ after.balance = before.balance - amount
        /\ Len(tx) = n + 1
        /\ SubSeq(tx, 1, n) = before.transactions
        /\ tx[n + 1].transaction_type = "withdrawal"
        /\ tx[n + 1].amount = amount

IsCurrentWithdraw ==
    IsCall /\ last'.op = "withdraw" /\ account.account_type = "current"

\* C8 as stated: a Current withdraw with balance < amount <= balance +
\* overdraft_limit debits amount + overdraft_fee and adds a fee Transaction
\* immediately followed by the withdrawal Transaction; with 0 < amount <=
\* balance it debits amount and adds the withdrawal Transaction alone.
C8_AsStated ==
    [][ IsCurrentWithdraw =>
          LET amount == last'.arg.amount
          IN  /\ (account.balance < amount /\ amount <= account.balance + account.overdraft_limit)
                    => WithFee(account, account', amount, last'.result)
              /\ (0 < amount /\ amount <= account.balance)
                    => WithoutFee(account, account', amount, last'.result) ]_vars

\* C8 amended: the same, for amount > 0 in the first case too (an account
\* already overdrawn rejects an amount <= 0 that lies above its balance).
C8_CurrentWithdraw ==
    [][ IsCurrentWithdraw =>
          LET amount == last'.arg.amount
          IN  /\ (0 < amount /\ account.balance < amount
                    /\ amount <= account.balance + account.overdraft_limit)
                    => WithFee(account, account', amount, last'.result)
              /\ (0 < amount /\ amount <= account.balance)
                    => WithoutFee(account, account', amount, last'.result) ]_vars

\* the spec's example: balance 500, limit 200, withdraw 600 leaves -200 with
\* the fee Transaction before the withdrawal Transaction
C8_Witness ==
    /\ last.op = "withdraw" /\ last.result = "none" /\ last.arg.amount = 600
    /\ account.account_type = "current"
    /\ account.overdraft_limit = 200
    /\ account.balance = -200
    /\ Len(account.transactions) = 2
    /\ account.transactions[1].transaction_type = "fee"
    /\ account.transactions[2].transaction_type = "withdrawal"

\* C10: a Savings withdraw with balance - amount < min_balance is rejected,
\* a successful one leaves balance >= min_balance, and at balance =
\* min_balance every amount > 0 is rejected.
C10_SavingsMinimumBalance ==
    [][ (IsCall /\ last'.op = "withdraw" /\ account.account_type = "savings") =>
          LET amount == last'.arg.amount
          IN  /\ (account.balance - amount < account.min_balance) => last'.result # "none"
              /\ (last'.result = "none") => account'.balance >= account'.min_balance
              /\ (account.balance = account.min_balance /\ amount > 0)
                    => (last'.result # "none" /\ account' = account) ]_vars

\* a Savings account at its minimum balance has rejected a withdrawal
C10_Witness ==
    /\ last.op = "withdraw" /\ last.arg.amount > 0
    /\ last.result = "MinimumBalanceViolation"
    /\ account.account_type = "savings"
    /\ account.balance = account.min_balance

\* a withdraw call on a FixedDeposit object before its maturity date
IsEarlyWithdraw ==
    /\ IsCall
    /\ last'.op = "withdraw"
    /\ account.account_type = "fixed_deposit"
    /\ BeforeMaturity(account, now)

\* C11: a successful FixedDeposit withdraw before maturity adds a fee
\* Transaction of amount * early_withdrawal_penalty / 100 immediately
\* followed by the withdrawal Transaction of amount, and leaves the balance
\* at the initial balance minus the penalty minus the amount.
C11_EarlyWithdrawPenalty ==
    [][ (IsEarlyWithdraw /\ last'.result = "none") =>
          LET amount == last'.arg.amount
              penalty == (amount * account.early_withdrawal_penalty) \div 100
              n == Len(account.transactions)
              tx == account'.transactions
          IN  /\ Len(tx) = n + 2
              /\ SubSeq(tx, 1, n) = account.transactions
              /\ tx[n + 1].transaction_type = "fee"
              /\ tx[n + 1].amount = penalty
              /\ tx[n + 2].transaction_type = "withdrawal"
              /\ tx[n + 2].amount = amount
              /\ account'.balance = account.balance - penalty - amount ]_vars

\* 500 has been withdrawn from a FixedDeposit of 1000 before its maturity:
\* a fee of 5, then the withdrawal, and 495 left
C11_Witness ==
    /\ last.op = "withdraw" /\ last.result = "none" /\ last.arg.amount = 500
    /\ account.account_type = "fixed_deposit"
    /\ BeforeMaturity(account, now)
    /\ account.balance = 495
    /\ Len(account.transactions) = 2
    /\ account.transactions[1].transaction_type = "fee"
    /\ account.transactions[1].amount = 5
    /\ account.transactions[2].transaction_type = "withdrawal"

\* C12: for every variant, deposit(amount) with amount > 0 succeeds, raises
\* the balance by exactly amount and adds exactly one Transaction, of kind
\* deposit and of that amount; deposit with amount <= 0 fails with
\* InvalidAmount.
C12_Deposit ==
    [][ (IsCall /\ last'.op = "deposit") =>
          LET amount == last'.arg.amount
              n == Len(account.transactions)
              tx == account'.transactions
          IN  /\ amount > 0 =>
                    /\ last'.result = "none"
                    /\ account'.balance = account.balance + amount
                    /\ Len(tx) = n + 1
                    /\ SubSeq(tx, 1, n) = account.transactions
                    /\ tx[n + 1].transaction_type = "deposit"
                    /\ tx[n + 1].amount = amount
              /\ amount <= 0 => last'.result = "InvalidAmount" ]_vars

\* the spec's example: 500 deposited into a Savings account of 1000 leaves
\* 1500 and one deposit Transaction of 500
C12_Witness ==
    /\ last.op = "deposit" /\ last.result = "none" /\ last.arg.amount = 500
    /\ account.account_type = "savings"
    /\ account.balance = 1500
    /\ Len(account.transactions) = 1
    /\ account.transactions[1].transaction_type = "deposit"
    /\ account.transactions[1].amount = 500

\* C13: for every variant, a withdraw with amount <= 0 fails with
\* InvalidAmount, whatever the balance and the limits of the variant are.
C13_NonPositiveWithdrawIsInvalidAmount ==
    [][ (IsCall /\ last'.op = "withdraw" /\ last'.arg.amount <= 0)
            => last'.result = "InvalidAmount" ]_vars

\* C15: calculate_interest changes neither the balance nor the transaction
\* list, for every variant; Current returns 0, Savings returns balance *
\* rate / 100 and FixedDeposit returns balance * rate / 100 * term_months /
\* 12 (rate is held in tenths of a percent, so rate / 100 is rate over 1000).
C15_CalculateInterestIsPure ==
    [][ (IsCall /\ last'.op = "calculate_interest") =>
          LET returned == last'.arg.returned
          IN  /\ account'.balance = account.balance
              /\ account'.transactions = account.transactions
              /\ account' = account
              /\ (account.account_type = "current") => returned = Fraction(0, 1)
              /\ (account.account_type = "savings") =>
                    returned = Fraction(account.balance * account.interest_rate, 1000)
              /\ (account.account_type = "fixed_deposit") =>
                    returned = Fraction(account.balance * account.interest_rate * account.term_months, 12000) ]_vars

\* the interest of a FixedDeposit of 12 months at 6.5 percent has been asked
\* for after a deposit of 1000 on its 1000: it is 130, the balance is still
\* 2000 and the one Transaction is still alone
C15_Witness ==
    /\ last.op = "calculate_interest"
    /\ account.account_type = "fixed_deposit"
    /\ account.term_months = 12
    /\ account.balance = 2000
    /\ last.arg.returned = [num |-> 130, den |-> 1]
    /\ Len(account.transactions) = 1

-----------------------------------------------------------------------------
(* Claims about the store used by one writer (Spec) *)

\* what the next load returns
Stored(fs) == load_database(fs).data

\* the number of dicts of s whose field key equals value
Count(s, key, value) == Cardinality({i \in DOMAIN s : s[i][key] = value})

Unique(s, key) == \A i, j \in DOMAIN s : i # j => s[i][key] # s[j][key]

\* C1: the accounts collection never holds two records with one
\* account_number, and a create_account whose account_number is stored fails
\* with DuplicateKey and leaves exactly one record for that key.
C1_OneRecordPerAccountNumber ==
    /\ [] Unique(Stored(disk).accounts, "account_no")
    /\ [][ (IsCall /\ last'.op = "add_account"
              /\ Count(Stored(disk).accounts, "account_no", last'.arg.account_no) > 0)
           => /\ last'.result = "DuplicateKey"
              /\ Count(Stored(disk').accounts, "account_no", last'.arg.account_no) = 1 ]_vars

\* a second create_account with a stored account_number has been refused
C1_Witness ==
    /\ last.op = "add_account"
    /\ last.result = "DuplicateKey"
    /\ Count(Stored(disk).accounts, "account_no", last.arg.account_no) = 1

\* a create_account call whose identity_number matches no stored citizen
IsOrphanCreate ==
    /\ IsCall
    /\ last'.op = "add_account"
    /\ Count(Stored(disk).citizens, "pan_number", last'.arg.pan_number) = 0

\* C2 as stated: every create_account call whose identity_number matches no
\* stored citizen fails with UnknownReference and leaves the accounts
\* collection and the durable file as they were.
C2_AsStated ==
    [][ IsOrphanCreate => (last'.result = "UnknownReference" /\ disk' = disk) ]_vars

\* C2 amended: such a call always fails and writes nothing; the failure is
\* UnknownReference when the account_number passes its format check and is
\* not stored, InvalidFormat when it fails the format check, and DuplicateKey
\* when it is already stored.
C2_OrphanCreateFails ==
    [][ IsOrphanCreate =>
          LET account_no == last'.arg.account_no
              stored == Count(Stored(disk).accounts, "account_no", account_no) > 0
          IN  /\ disk' = disk
              /\ last'.result =
                    IF ~ validate_account_number(account_no) THEN "InvalidFormat"
                    ELSE IF stored THEN "DuplicateKey"
                    ELSE "UnknownReference" ]_vars

\* a well-formed, new account_number with an unregistered identity_number
\* has been refused while another citizen is stored
C2_Witness ==
    /\ last.op = "add_account"
    /\ last.result = "UnknownReference"
    /\ Len(Stored(disk).citizens) > 0
    /\ Count(Stored(disk).citizens, "pan_number", last.arg.pan_number) = 0
    /\ Stored(disk).accounts = << >>

\* C3: create_citizen fails with InvalidFormat on a malformed identity_number
\* and with DuplicateKey on a stored one, the durable file unchanged in both
\* cases; otherwise it appends the one record at the end of the citizens
\* collection; no two citizen records ever share an identity_number.
C3_CreateCitizen ==
    /\ [] Unique(Stored(disk).citizens, "pan_number")
    /\ [][ (IsCall /\ last'.op = "add_citizen") =>
             LET pan_number == last'.arg.pan_number
                 before == Stored(disk)
                 stored == Count(before.citizens, "pan_number", pan_number) > 0
             IN  /\ ~ validate_pan(pan_number)
                       => (last'.result = "InvalidFormat" /\ disk'.db_file = disk.db_file)
                 /\ stored
                       => (last'.result = "DuplicateKey" /\ disk'.db_file = disk.db_file)
                 /\ (validate_pan(pan_number) /\ ~ stored)
                       => /\ last'.result = "True"
                          /\ Stored(disk') = [before EXCEPT !.citizens = Append(@, last'.arg)] ]_vars

\* a second citizen has been appended behind the first
C3_Witness ==
    /\ last.op = "add_citizen"
    /\ last.result = "True"
    /\ Len(Stored(disk).citizens) = 2
    /\ Stored(disk).citizens[2] = last.arg

\* the stored balance of the account, or 0 when it is not stored
StoredBalance(fs, acc_no) ==
    LET a == find_account_by_number(fs, acc_no).found
    IN  IF a = << >> THEN 0 ELSE a[1].balance

\* C9: when withdraw_money has charged a fee or a penalty, the durable
\* transactions collection has gained the fee Transaction and, behind it, the
\* withdrawal Transaction, and the two amounts add up to the fall of the
\* stored balance.
C9_FeeIsInTheLedger ==
    [][ (IsCall /\ last'.op = "withdraw_money" /\ last'.result = "ok"
            /\ StoredBalance(disk, last'.arg.key) - StoredBalance(disk', last'.arg.key)
                  > last'.arg.amount)
        => LET old == Stored(disk).transactions
               new == Stored(disk').transactions
               n == Len(old)
           IN  /\ Len(new) = n + 2
               /\ SubSeq(new, 1, n) = old
               /\ new[n + 1].transaction_type = "fee"
               /\ new[n + 2].transaction_type = "withdrawal"
               /\ new[n + 1].amount + new[n + 2].amount
                     = StoredBalance(disk, last'.arg.key) - StoredBalance(disk', last'.arg.key) ]_vars

\* the collection and the key field an update or delete call works on
CollectionOf(op) == IF op \in {"update_citizen", "delete_citizen"} THEN "citizens" ELSE "accounts"
KeyOf(op) == IF op \in {"update_citizen", "delete_citizen"} THEN "pan_number" ELSE "account_no"

IsUpdate == IsCall /\ last'.op \in {"update_citizen", "update_account"}
IsDelete == IsCall /\ last'.op \in {"delete_citizen", "delete_account"}

\* the collections of the snapshots a and b, but for one, are the same
OthersUnchanged(a, b, collection) ==
    \A c \in {"citizens", "accounts", "transactions"} \ {collection} : a[c] = b[c]

\* C16: update_citizen / update_account on a stored key succeeds and puts,
\* at the position of the record, a record of exactly the supplied fields
\* plus the original key: the key is the one stored before whatever key the
\* supplied fields carry, fields not supplied are gone, and every other
\* record of every collection is as it was.
C16_UpdateReplacesInPlace ==
    [][ (IsUpdate /\ Count(Stored(disk)[CollectionOf(last'.op)], KeyOf(last'.op), last'.arg.key) > 0) =>
          LET c == CollectionOf(last'.op)
              k == KeyOf(last'.op)
              before == Stored(disk)
              after == Stored(disk')
              i == FirstMatch(before[c], k, last'.arg.key)
              supplied == last'.arg.updated_data
          IN  /\ last'.result = "True"
              /\ Len(after[c]) = Len(before[c])
              /\ after[c][i][k] = last'.arg.key
              /\ DOMAIN after[c][i] = DOMAIN supplied \cup {k}
              /\ \A f \in DOMAIN supplied \ {k} : after[c][i][f] = supplied[f]
              /\ \A j \in DOMAIN before[c] \ {i} : after[c][j] = before[c][j]
              /\ OthersUnchanged(before, after, c) ]_vars

\* the first of two citizens has been updated with the fields of a dict
\* that carries the key of the second: it keeps its key and its place
C16_Witness ==
    /\ last.op = "update_citizen"
    /\ last.result = "True"
    /\ last.arg.key = PAN1
    /\ "pan_number" \in DOMAIN last.arg.updated_data
    /\ last.arg.updated_data.pan_number = PAN2
    /\ Len(Stored(disk).citizens) = 2
    /\ Stored(disk).citizens[1].pan_number = PAN1
    /\ Stored(disk).citizens[1].name = last.arg.updated_data.name
    /\ Stored(disk).citizens[2].pan_number = PAN2

\* C17: update_citizen / update_account on a key that is not stored reports
\* that nothing was found (False) and writes nothing: the durable file, the
\* temporary file and the backups are as they were.
C17_UpdateOfMissingKey ==
    [][ (IsUpdate /\ Count(Stored(disk)[CollectionOf(last'.op)], KeyOf(last'.op), last'.arg.key) = 0)
            => (last'.result = "False" /\ disk' = disk) ]_vars

\* an update of an account that is not stored has been refused while
\* another account is stored
C17_Witness ==
    /\ last.op = "update_account"
    /\ last.result = "False"
    /\ Len(Stored(disk).accounts) = 1
    /\ Stored(disk).accounts[1].account_no # last.arg.key
    /\ disk.db_file.exists

\* C18: delete_citizen / delete_account reports True exactly when a record
\* with the key was stored before the call; then no record with the key is
\* left and every other record is as it was, in its order; on a key that is
\* not stored it reports False and the files are as they were.
C18_Delete ==
    [][ IsDelete =>
          LET c == CollectionOf(last'.op)
              k == KeyOf(last'.op)
              key == last'.arg.key
              before == Stored(disk)
              after == Stored(disk')
              present == Count(before[c], k, key) > 0
          IN  /\ last'.result \in {"True", "False"}
              /\ (last'.result = "True") <=> present
              /\ present =>
                    /\ Count(after[c], k, key) = 0
                    /\ after[c] = SelectSeq(before[c], LAMBDA d : d[k] # key)
                    /\ OthersUnchanged(before, after, c)
              /\ (~ present) => disk' = disk ]_vars

\* the first of two citizens has been deleted and the second is left
C18_Witness ==
    /\ last.op = "delete_citizen"
    /\ last.result = "True"
    /\ last.arg.key = PAN1
    /\ Len(Stored(disk).citizens) = 1
    /\ Stored(disk).citizens[1].pan_number = PAN2
    /\ DOMAIN disk.backups # {}

\* C30: after any sequence of add_citizen, add_account, update_citizen,
\* update_account, delete_citizen and delete_account calls, the pan_number
\* of every stored account record is the pan_number of a stored citizen
\* record.
C30_AccountsReferenceCitizens ==
    LET db == Stored(disk)
    IN  \A i \in DOMAIN db.accounts :
           "pan_number" \in DOMAIN db.accounts[i]
              => \E j \in DOMAIN db.citizens :
                    db.citizens[j].pan_number = db.accounts[i].pan_number

-----------------------------------------------------------------------------
(* deposit_money and withdraw_money on a stored account as the days pass *)

\* the store after add_citizen and add_account of one account at OpenTime
OpenedStores ==
    { add_account(add_citizen(EmptyDisk, Citizen(PAN1, "n1", "1990-01-01", "addr"), OpenTime).disk,
                  acct, OpenTime).disk : acct \in NewAccounts(ACC1, PAN1, OpenTime) }

InitFlow ==
    /\ disk \in OpenedStores
    /\ now = OpenTime
    /\ uuid = 0
    /\ last = NoCall
    /\ account = NoAccount
    /\ pc = "idle"
    /\ data = EmptyDatabase

NextFlow ==
    \/ Tick
    \/ NextDay
    \/ DepositMoney
    \/ WithdrawMoney

SpecFlow == InitFlow /\ [][NextFlow]_vars

\* a withdraw_money call that succeeds on a stored FixedDeposit record
IsFixedDepositWithdrawal ==
    /\ IsCall
    /\ last'.op = "withdraw_money"
    /\ last'.result = "ok"
    /\ find_account_by_number(disk, last'.arg.key).found # << >>
    /\ find_account_by_number(disk, last'.arg.key).found[1].account_type = "fixed_deposit"

\* C14: a FixedDeposit withdrawal through withdraw_money debits the penalty
\* with the amount exactly when the time of the call is earlier than the
\* maturity date of the stored record (its open_date plus its term_months);
\* at or after that date it debits exactly the amount.
C14_PenaltyOnlyBeforeStoredMaturity ==
    [][ IsFixedDepositWithdrawal =>
          LET stored == find_account_by_number(disk, last'.arg.key).found[1]
              amount == last'.arg.amount
              maturity_at == calculate_maturity_date(stored.open_date, stored.term_months).date
              penalty == (amount * stored.early_withdrawal_penalty) \div 100
              fall == stored.balance - StoredBalance(disk', last'.arg.key)
          IN  IF IsoLess(now, maturity_at)
              THEN fall = amount + penalty
              ELSE fall = amount ]_vars

\* C22: every backup file that exists stays, with its content, through every
\* later call, and a call that has saved over an existing durable file
\* leaves a backup file that holds the durable file as it was before the
\* call; this for saves one behind the other in the same second too, as the
\* update_account and the record_transaction of one deposit.
C22_BackupsAreKept ==
    [][ /\ \A n \in DOMAIN disk.backups :
              n \in DOMAIN disk'.backups /\ disk'.backups[n] = disk.backups[n]
        /\ (IsCall /\ disk.db_file.exists /\ disk'.db_file # disk.db_file)
              => \E n \in DOMAIN disk'.backups : disk'.backups[n] = disk.db_file ]_vars

\* C29: a deposit_money or withdraw_money call that succeeds changes only
\* the balance of the stored record of its account: the record keeps its
\* fields, every field but balance keeps its stored value (account_type,
\* open_date, status, interest_rate, min_balance, overdraft_limit,
\* overdraft_fee, term_months, maturity_date, early_withdrawal_penalty),
\* and no other account record changes.
C29_FlowChangesBalanceOnly ==
    [][ (IsCall /\ last'.op \in {"deposit_money", "withdraw_money"} /\ last'.result = "ok") =>
          LET before == Stored(disk).accounts
              after == Stored(disk').accounts
          IN  /\ Len(after) = Len(before)
              /\ \A i \in DOMAIN before :
                    IF before[i].account_no = last'.arg.key
                    THEN /\ DOMAIN after[i] = DOMAIN before[i]
                         /\ \A f \in DOMAIN before[i] \ {"balance"} : after[i][f] = before[i][f]
                    ELSE after[i] = before[i] ]_vars

-----------------------------------------------------------------------------
(* The store over a durable file that exists and cannot be parsed *)

\* the durable file of a store cut short, with no backup and no temporary
\* file beside it
CorruptStores ==
    { [EmptyDisk EXCEPT !.db_file = File(fs.db_file.text, FALSE)] : fs \in OpenedStores }

InitCorrupt ==
    /\ disk \in CorruptStores
    /\ now = OpenTime
    /\ uuid = 0
    /\ last = NoCall
    /\ account = NoAccount
    /\ pc = "idle"
    /\ data = EmptyDatabase

\* what a read reports: the call raised DatabaseError, or returned
ReadResult(r) == IF r.ok THEN "Returned" ELSE "DatabaseError"

FindCitizen ==
    \E pan_number \in {PAN1, PAN2} :
       /\ last.n < MaxOps
       /\ last' = Call("find_citizen_by_pan", [key |-> pan_number],
                       ReadResult(find_citizen_by_pan(disk, pan_number)))
       /\ UNCHANGED <<disk, now, uuid, account, pc, data>>

FindAccount ==
    \E account_no \in {ACC1, ACC2} :
       /\ last.n < MaxOps
       /\ last' = Call("find_account_by_number", [key |-> account_no],
                       ReadResult(find_account_by_number(disk, account_no)))
       /\ UNCHANGED <<disk, now, uuid, account, pc, data>>

GetAllCitizens ==
    /\ last.n < MaxOps
    /\ last' = Call("get_all_citizens", [none |-> TRUE], ReadResult(get_all_citizens(disk)))
    /\ UNCHANGED <<disk, now, uuid, account, pc, data>>

GetAllAccounts ==
    /\ last.n < MaxOps
    /\ last' = Call("get_all_accounts", [none |-> TRUE], ReadResult(get_all_accounts(disk)))
    /\ UNCHANGED <<disk, now, uuid, account, pc, data>>

GetAccountsByPan ==
    \E pan_number \in {PAN1, PAN2} :
       /\ last.n < MaxOps
       /\ last' = Call("get_accounts_by_pan", [key |-> pan_number],
                       ReadResult(get_accounts_by_pan(disk, pan_number)))
       /\ UNCHANGED <<disk, now, uuid, account, pc, data>>

NextCorrupt ==
    \/ Tick
    \/ AddCitizen
    \/ AddAccount
    \/ UpdateCitizen
    \/ UpdateAccount
    \/ DeleteCitizen
    \/ DeleteAccount
    \/ DepositMoney
    \/ WithdrawMoney
    \/ FindCitizen
    \/ FindAccount
    \/ GetAllCitizens
    \/ GetAllAccounts
    \/ GetAccountsByPan

SpecCorrupt == InitCorrupt /\ [][NextCorrupt]_vars

-----------------------------------------------------------------------------
(* save_database run step by step, and interrupted.  A handler has loaded   *)
(* the snapshot and changed it (data); pc is the statement save_database    *)
(* executes next.  An interruption ends the process where it stands: the    *)
(* files stay as they are.                                                  *)

SaveCall(old, new, at, result) ==
    [n |-> last.n + 1, op |-> "save_database",
     arg |-> [old |-> old, new |-> new, at |-> at], result |-> result]

\* add_citizen up to its call of save_database
BeginAddCitizen ==
    \E pan_number \in {PAN1, PAN2} :
       LET citizen == Citizen(pan_number, "n1", "1990-01-01", "addr")
           db == load_database(disk)
       IN  /\ pc = "idle"
           /\ last.n < MaxSaves
           /\ validate_pan(pan_number)
           /\ find_citizen_by_pan(disk, pan_number).found = << >>
           /\ db.ok
           /\ data' = [db.data EXCEPT !.citizens = Append(@, citizen)]
           /\ pc' = "backup"
           /\ last' = SaveCall(db.data, data', "backup", "running")
           /\ UNCHANGED <<disk, now, uuid, account>>

\* delete_citizen up to its call of save_database
BeginDeleteCitizen ==
    \E pan_number \in {PAN1, PAN2} :
       LET db == load_database(disk)
           kept == SelectSeq(db.data.citizens, LAMBDA c : c.pan_number # pan_number)
       IN  /\ pc = "idle"
           /\ last.n < MaxSaves
           /\ db.ok
           /\ Len(kept) < Len(db.data.citizens)
           /\ data' = [db.data EXCEPT !.citizens = kept]
           /\ pc' = "backup"
           /\ last' = SaveCall(db.data, data', "backup", "running")
           /\ UNCHANGED <<disk, now, uuid, account>>

At(position) == [last EXCEPT !.arg.at = position]

\* create_backup: the backup file is opened for writing
StepOpenBackup ==
    /\ pc = "backup"
    /\ disk' = OpenBackup(disk, now)
    /\ pc' = "copy"
    /\ last' = At("copy")
    /\ UNCHANGED <<now, uuid, account, data>>

\* create_backup: the copy is written
StepCopyBackup ==
    /\ pc = "copy"
    /\ disk' = create_backup(disk, now)
    /\ pc' = "open"
    /\ last' = At("open")
    /\ UNCHANGED <<now, uuid, account, data>>

\* save_database: the temporary file is opened for writing
StepOpenTemp ==
    /\ pc = "open"
    /\ disk' = OpenTemp(disk, data)
    /\ pc' = "write"
    /\ last' = At("write")
    /\ UNCHANGED <<now, uuid, account, data>>

\* save_database: json.dump has written the whole snapshot
StepWriteTemp ==
    /\ pc = "write"
    /\ disk' = WriteTemp(disk, data)
    /\ pc' = "replace"
    /\ last' = At("replace")
    /\ UNCHANGED <<now, uuid, account, data>>

\* save_database: os.replace
StepReplace ==
    /\ pc = "replace"
    /\ disk' = Replace(disk)
    /\ pc' = "idle"
    /\ last' = [At("done") EXCEPT !.result = "True"]
    /\ UNCHANGED <<now, uuid, account, data>>

\* the process is interrupted before the statement at pc
Interrupt ==
    /\ pc # "idle"
    /\ pc' = "idle"
    /\ last' = [last EXCEPT !.result = "interrupted"]
    /\ UNCHANGED <<disk, now, uuid, account, data>>

NextSave ==
    \/ Tick
    \/ BeginAddCitizen
    \/ BeginDeleteCitizen
    \/ StepOpenBackup
    \/ StepCopyBackup
    \/ StepOpenTemp
    \/ StepWriteTemp
    \/ StepReplace
    \/ Interrupt

SpecSave == Init /\ [][NextSave]_vars

\* C4: whenever a save is running, has ended or was interrupted, the next
\* load succeeds and returns the complete previous snapshot or the complete
\* new one; interrupted before the replace it returns the previous one.
C4_OldOrNewSnapshot ==
    (last.op = "save_database") =>
        /\ load_database(disk).ok
        /\ Stored(disk) \in {last.arg.old, last.arg.new}
        /\ (last.arg.at # "done") => Stored(disk) = last.arg.old
        /\ (last.arg.at = "done") => Stored(disk) = last.arg.new

\* a save has been interrupted between the temporary-file write and the
\* rename, over a durable file that existed
C4_Witness ==
    /\ last.op = "save_database"
    /\ last.result = "interrupted"
    /\ last.arg.at = "replace"
    /\ disk.temp_file.exists /\ disk.temp_file.whole
    /\ disk.db_file.exists
    /\ Stored(disk) = last.arg.old
    /\ last.arg.old # last.arg.new

-----------------------------------------------------------------------------
(* save_database run to its end while one of its steps fails *)

\* save_database(data) of the handler that has begun, with the failure
\* fault (or none)
RunSave ==
    \E fault \in PossibleFaults(disk) :
       LET r == save_database_with(disk, data, now, fault)
       IN  /\ pc = "backup"
           /\ disk' = r.disk
           /\ pc' = "idle"
           /\ last' = [last EXCEPT !.arg = [old |-> last.arg.old, new |-> last.arg.new,
                                            at |-> IF r.raised = "none" THEN "done" ELSE "failed",
                                            fault |-> fault],
                                   !.result = IF r.raised = "none" THEN "True" ELSE r.raised]
           /\ UNCHANGED <<now, uuid, account, data>>

NextFault ==
    \/ Tick
    \/ BeginAddCitizen
    \/ BeginDeleteCitizen
    \/ RunSave

SpecFault == Init /\ [][NextFault]_vars

\* C20: a save during which a step of the backup failed (making the backup
\* directory, reading the durable file, writing the copy) still succeeds:
\* it reports success and the next load returns the new snapshot.
C20_BackupFailureNeverFailsSave ==
    (last.op = "save_database" /\ pc = "idle" /\ last.arg.fault \in BackupFaults)
        => (last.result = "True" /\ Stored(disk) = last.arg.new)

\* C21: whenever a save has failed, what its caller received is the save
\* failure of the store (DatabaseError) and no other error, no temporary
\* file is left, and the next load returns the complete previous snapshot.
C21_FailedSaveIsReportedAndCleaned ==
    (last.op = "save_database" /\ pc = "idle" /\ last.result # "True")
        => /\ last.result = "DatabaseError"
           /\ ~ disk.temp_file.exists
           /\ load_database(disk).ok
           /\ Stored(disk) = last.arg.old

-----------------------------------------------------------------------------
(* Two writers: the load-modify-save cycles of update_account and of        *)
(* record_transaction, each in a process of its own, over one durable file. *)
(* pc and data are here functions of the writer: where it stands and the    *)
(* snapshot it has loaded and changed.                                      *)

Updater == "update_account"
Recorder == "record_transaction"
Writers == {Updater, Recorder}

\* a load that starts from the empty database whatever the file holds
LoadAndAppend_Fresh(fs, collection, d) ==
    [ok |-> load_database(fs).ok,
     data |-> [EmptyDatabase EXCEPT ![collection] = Append(@, d)]]

\* record_transaction up to its call of save_database: [ok, data]
LoadAndAppend(fs, collection, d) ==
    LET db == load_database(fs)
    IN  [ok |-> db.ok,
         data |-> [db.data EXCEPT ![collection] = Append(@, d)]]

\* update_account up to its call of save_database: [ok, found, data]
LoadAndUpdate(fs, collection, key, value, updated_data) ==
    LET db == load_database(fs)
        i == FirstMatch(db.data[collection], key, value)
        replacement == Extend(updated_data, [k \in {key} |-> value])
    IN  [ok |-> db.ok,
         found |-> i # 0,
         data |-> IF i = 0 THEN db.data ELSE [db.data EXCEPT ![collection][i] = replacement]]

\* the balances update_account writes and the amounts of the Transactions
\* record_transaction appends
RaceBalances == {2000, 2500}
RaceAmounts == {500, 1000}

NoRace == [n |-> 0, op |-> "writers",
           arg |-> [balance |-> 0, transaction |-> << >>, overlap |-> FALSE],
           result |-> [w \in Writers |-> "none"]]

InitRace ==
    /\ disk \in OpenedStores
    /\ now = OpenTime
    /\ uuid = 0
    /\ last = NoRace
    /\ account = NoAccount
    /\ pc = [w \in Writers |-> "idle"]
    /\ data = [w \in Writers |-> EmptyDatabase]

\* another writer stands between its load and its save
OtherLoaded(w) == \E v \in Writers \ {w} : pc[v] = "loaded"

\* update_account(ACC1, the stored dict with another balance): load and
\* replace
UpdaterLoads ==
    \E balance \in RaceBalances :
       LET stored == find_account_by_number(disk, ACC1).found[1]
           r == LoadAndUpdate(disk, "accounts", "account_no", ACC1, [stored EXCEPT !.balance = balance])
       IN  /\ pc[Updater] = "idle"
           /\ r.ok /\ r.found
           /\ data' = [data EXCEPT ![Updater] = r.data]
           /\ pc' = [pc EXCEPT ![Updater] = "loaded"]
           /\ last' = [last EXCEPT !.n = @ + 1,
                                   !.arg.balance = balance,
                                   !.arg.overlap = @ \/ OtherLoaded(Updater)]
           /\ UNCHANGED <<disk, now, uuid, account>>

\* record_transaction(transaction): load and append
RecorderLoads ==
    \E amount \in RaceAmounts :
       LET transaction == Transaction(ACC1, amount, "deposit", "Deposit", now, uuid)
           r == LoadAndAppend(disk, "transactions", TransactionToDict(transaction))
       IN  /\ pc[Recorder] = "idle"
           /\ r.ok
           /\ data' = [data EXCEPT ![Recorder] = r.data]
           /\ pc' = [pc EXCEPT ![Recorder] = "loaded"]
           /\ uuid' = uuid + 1
           /\ last' = [last EXCEPT !.n = @ + 1,
                                   !.arg.transaction = <<TransactionToDict(transaction)>>,
                                   !.arg.overlap = @ \/ OtherLoaded(Recorder)]
           /\ UNCHANGED <<disk, now, account>>

\* save_database(db) and return True, of either writer
WriterSaves ==
    \E w \in Writers :
       /\ pc[w] = "loaded"
       /\ disk' = save_database(disk, data[w], now)
       /\ pc' = [pc EXCEPT ![w] = "done"]
       /\ last' = [last EXCEPT !.n = @ + 1, !.result[w] = "True"]
       /\ UNCHANGED <<now, uuid, account, data>>

NextRace ==
    \/ Tick
    \/ UpdaterLoads
    \/ RecorderLoads
    \/ WriterSaves

SpecRace == InitRace /\ [][NextRace]_vars

\* both writers have reported success
BothSucceeded ==
    /\ last.op = "writers"
    /\ \A w \in Writers : pc[w] = "done" /\ last.result[w] = "True"

\* the durable file holds the update of the Updater, of the Recorder
UpdateKept == StoredBalance(disk, ACC1) = last.arg.balance
RecordKept == \E i \in DOMAIN Stored(disk).transactions :
                  Stored(disk).transactions[i] = last.arg.transaction[1]

\* C23: when the two load-modify-save cycles did not interleave (one writer
\* at a time) and both reported success, the durable file holds both
\* updates; when they did interleave it holds at least the update of the
\* writer that saved last.  (That a state with both successes and only one
\* update is reachable is C23_Witness.)
C23_SingleWriterLosesNothing ==
    BothSucceeded =>
        /\ (~ last.arg.overlap) => (UpdateKept /\ RecordKept)
        /\ UpdateKept \/ RecordKept

\* the lost update: the cycles interleaved, both writers reported success,
\* and the durable file holds the Transaction but the balance of before
C23_Witness ==
    /\ BothSucceeded
    /\ last.arg.overlap
    /\ RecordKept
    /\ ~ UpdateKept
    /\ StoredBalance(disk, ACC1) \notin RaceBalances

-----------------------------------------------------------------------------
(* The ledger of a store that holds an account, under the calls that write *)

\* record_transaction called with a Transaction built at the time of the call
RecordTransaction ==
    \E amount \in DepositAmounts :
       LET transaction == Transaction(ACC1, amount, "deposit", "Deposit", now, uuid)
           r == record_transaction(disk, transaction, now)
       IN  /\ last.n < MaxOps
           /\ disk' = r.disk
           /\ uuid' = uuid + 1
           /\ last' = Call("record_transaction", TransactionToDict(transaction), r.result)
           /\ UNCHANGED <<now, account, pc, data>>

\* the clock moves within deposit_money and withdraw_money only
NextLedger ==
    \/ RecordTransaction
    \/ DepositMoney
    \/ WithdrawMoney
    \/ UpdateAccount
    \/ DeleteAccount
    \/ DeleteCitizen

SpecLedger == InitFlow /\ [][NextLedger]_vars

IsPrefix(s, t) == Len(s) <= Len(t) /\ SubSeq(t, 1, Len(s)) = s

\* the calls that end in record_transaction
Appenders == {"record_transaction", "deposit_money", "withdraw_money"}

\* C24: the transactions collection is append-only: through every call its
\* content of before is a prefix of its content of after; only
\* record_transaction (called directly or at the end of deposit_money and
\* withdraw_money) extends it, by exactly one entry at the end; no call,
\* delete_account and update_account included, removes, reorders or changes
\* an entry.
C24_LedgerIsAppendOnly ==
    [][ LET old == Stored(disk).transactions
            new == Stored(disk').transactions
        IN  /\ IsPrefix(old, new)
            /\ (new # old) =>
                  /\ IsCall
                  /\ last'.op \in Appenders
                  /\ Len(new) = Len(old) + 1
            /\ (IsCall /\ last'.op = "record_transaction" /\ last'.result = "True")
                  => new = Append(old, last'.arg) ]_vars

\* the account has been deleted and its two Transactions are still in the
\* ledger
C24_Witness ==
    /\ last.op = "delete_account"
    /\ last.result = "True"
    /\ Stored(disk).accounts = << >>
    /\ Len(Stored(disk).transactions) = 2
    /\ \A i \in 1..2 : Stored(disk).transactions[i].account_no = last.arg.key

-----------------------------------------------------------------------------
(* The format checks on the keys that are typed in.  data is here the       *)
(* string typed in; the store holds one citizen.                            *)

\* a letter, a digit and a character that is neither
Keyboard == {"A", "1", "-"}

\* every string of at most MaxLen characters of the keyboard
TypedStrings == UNION { [1..n -> Keyboard] : n \in 0..MaxLen }

\* the store after add_citizen of one citizen
StoreWithCitizen ==
    add_citizen(EmptyDisk, Citizen(PAN1, "n1", "1990-01-01", "addr"), OpenTime).disk

InitValidate ==
    /\ disk = StoreWithCitizen
    /\ now = OpenTime
    /\ uuid = 0
    /\ last = NoCall
    /\ account = NoAccount
    /\ pc = "idle"
    /\ data \in TypedStrings

\* what a check returns
Answer(b) == IF b THEN "True" ELSE "False"

ValidatePan ==
    /\ last.n = 0
    /\ last' = Call("validate_pan", [input |-> data], Answer(validate_pan(data)))
    /\ UNCHANGED <<disk, now, uuid, account, pc, data>>

ValidateAccountNumber ==
    /\ last.n = 0
    /\ last' = Call("validate_account_number", [input |-> data],
                    Answer(validate_account_number(data)))
    /\ UNCHANGED <<disk, now, uuid, account, pc, data>>

\* add_citizen of a citizen with the string as pan_number
CreateCitizen ==
    LET citizen == Citizen(data, "n2", "1985-12-31", "addr")
        r == add_citizen(disk, citizen, now)
    IN  /\ last.n = 0
        /\ disk' = r.disk
        /\ last' = Call("add_citizen", citizen, r.result)
        /\ UNCHANGED <<now, uuid, account, pc, data>>

\* add_account of a Savings account of the stored citizen with the string as
\* account_no
CreateAccount ==
    LET acct == SavingsAccount(data, PAN1, 1500, "Main", SavingsDefaultRate, now)
        r == add_account(disk, acct, now)
    IN  /\ last.n = 0
        /\ disk' = r.disk
        /\ last' = Call("add_account", AccountToDict(acct), r.result)
        /\ UNCHANGED <<now, uuid, account, pc, data>>

NextValidate ==
    \/ ValidatePan
    \/ ValidateAccountNumber
    \/ CreateCitizen
    \/ CreateAccount

SpecValidate == InitValidate /\ [][NextValidate]_vars

\* the string is alphanumeric and has at least 8 characters
WellFormedAccountNumber(s) ==
    Len(s) >= 8 /\ \A i \in 1..Len(s) : s[i] \in Letters \cup Digits

\* C25: add_account with an account_no that is not alphanumeric or is
\* shorter than 8 characters fails with InvalidFormat and leaves the files
\* as they were; an account_no that is alphanumeric and has 8 characters or
\* more is never refused as InvalidFormat (here, with a stored citizen and
\* a new key, it is stored).
C25_AccountNumberFormat ==
    [][ (IsCall /\ last'.op = "add_account") =>
          LET account_no == last'.arg.account_no
          IN  /\ (~ WellFormedAccountNumber(account_no))
                    => (last'.result = "InvalidFormat" /\ disk' = disk)
              /\ WellFormedAccountNumber(account_no)
                    => /\ last'.result = "True"
                       /\ Count(Stored(disk').accounts, "account_no", account_no) = 1 ]_vars

\* an account_no of 8 characters, the last of them no letter and no digit,
\* has been refused and nothing was written
C25_Witness ==
    /\ last.op = "add_account"
    /\ last.result = "InvalidFormat"
    /\ Len(last.arg.account_no) = 8
    /\ last.arg.account_no[8] = "-"
    /\ \A i \in 1..7 : last.arg.account_no[i] \in Letters \cup Digits
    /\ disk = StoreWithCitizen

\* the string has 10 characters: 5 letters, 4 digits, 1 letter
PanShape(s) ==
    /\ Len(s) = 10
    /\ \A i \in 1..5 : s[i] \in Letters
    /\ \A i \in 6..9 : s[i] \in Digits
    /\ s[10] \in Letters

\* C26: validate_pan accepts a string exactly when it has 10 characters with
\* positions 0-4 letters, positions 5-8 digits and position 9 a letter; the
\* answer is a function of the string alone, and add_citizen refuses as
\* InvalidFormat exactly the strings the check rejects.
C26_PanFormat ==
    [][ /\ (IsCall /\ last'.op = "validate_pan")
              => last'.result = Answer(PanShape(last'.arg.input))
        /\ (IsCall /\ last'.op = "add_citizen")
              => ((last'.result = "InvalidFormat") <=> ~ PanShape(last'.arg.pan_number)) ]_vars

\* a string of 5 letters, 4 digits and a letter has been accepted
C26_Witness ==
    /\ last.op = "validate_pan"
    /\ last.result = "True"
    /\ Len(last.arg.input) = 10
    /\ last.arg.input[1] = "A"
    /\ last.arg.input[6] = "1"
    /\ last.arg.input[10] = "A"

-----------------------------------------------------------------------------
(* xml_exchange/site_b_import.py beside the store.  data is here the        *)
(* sequence of the files imported_data_<timestamp>.json the import wrote.   *)

\* an element that is absent, and one that is present with its text
NoElement == [present |-> FALSE, text |-> << >>]
Element(text) == [present |-> TRUE, text |-> text]

\* the Citizen elements of pan_data.xml: Name and DOB are present, PAN is
\* well-formed, malformed or absent, and there is at most one Account
XmlCitizens ==
    { [PAN |-> p, Name |-> Element("n1"), DOB |-> Element("1990-01-01"), Accounts |-> a] :
        p \in {Element(PAN1), Element(PANBAD), NoElement},
        a \in {<< >>, <<[AccountNumber |-> ACCBAD, AccountType |-> "savings", Balance |-> 1500]>>} }

\* pan_data.xml: at most MaxRecords Citizen elements
XmlDocuments == UNION { [1..n -> XmlCitizens] : n \in 0..MaxRecords }

\* the account_data dicts main() builds of the Account elements of a citizen
RECURSIVE accounts_data(_)
accounts_data(accounts) ==
    IF accounts = << >>
    THEN << >>
    ELSE LET elem == Head(accounts)
         IN  <<[account_number |-> elem.AccountNumber,
                account_type |-> elem.AccountType,
                balance |-> elem.Balance]>>
             \o accounts_data(Tail(accounts))

\* main(): the citizen_data dicts of the Citizen elements, those without a
\* PAN, Name or DOB element skipped
RECURSIVE citizens_data(_)
citizens_data(citizens) ==
    IF citizens = << >>
    THEN << >>
    ELSE LET citizen == Head(citizens)
         IN  IF ~ (citizen.PAN.present /\ citizen.Name.present /\ citizen.DOB.present)
             THEN citizens_data(Tail(citizens))
             ELSE <<[pan |-> citizen.PAN.text,
                     name |-> citizen.Name.text,
                     dob |-> citizen.DOB.text,
                     address |-> "Unknown",
                     accounts |-> accounts_data(citizen.Accounts)]>>
                  \o citizens_data(Tail(citizens))

\* save_to_local_db: open(filename, "w") of the file named after the second
\* and json.dump of the imported data
save_to_local_db(files, imported, t) ==
    LET file == [name |-> t, content |-> imported]
    IN  IF \E i \in DOMAIN files : files[i].name = t
        THEN [i \in DOMAIN files |-> IF files[i].name = t THEN file ELSE files[i]]
        ELSE Append(files, file)

\* main() of site_b_import.py over a document that parses
site_b_import(files, xml, t) ==
    LET parsed == citizens_data(xml)
    IN  IF parsed # << >>
        THEN save_to_local_db(files, [citizens |-> parsed], t)
        ELSE files

InitImport ==
    /\ disk = EmptyDisk
    /\ now = OpenTime
    /\ uuid = 0
    /\ last = NoCall
    /\ account = NoAccount
    /\ pc = "idle"
    /\ data = << >>

\* the import run over pan_data.xml; it opens neither the durable file of
\* the store nor database.py
ImportXml ==
    \E xml \in XmlDocuments :
       /\ last.n < MaxOps
       /\ data' = site_b_import(data, xml, now)
       /\ last' = Call("site_b_import", [xml |-> xml],
                       IF citizens_data(xml) # << >> THEN "saved" ELSE "nothing")
       /\ UNCHANGED <<disk, now, uuid, account, pc>>

NextImport ==
    \/ Tick
    \/ AddCitizen
    \/ AddAccount
    \/ ImportXml

SpecImport == InitImport /\ [][NextImport]_vars

\* the store after create_account of the parsed accounts of one citizen
RECURSIVE CreateAccounts(_, _, _, _)
CreateAccounts(fs, pan, accounts, t) ==
    IF accounts = << >>
    THEN fs
    ELSE LET a == Head(accounts)
             acct == SavingsAccount(a.account_number, pan, a.balance, "Main", SavingsDefaultRate, t)
         IN  CreateAccounts(add_account(fs, acct, t).disk, pan, Tail(accounts), t)

\* the store after create_citizen and create_account of the parsed records,
\* in the order of the document
RECURSIVE CreateAll(_, _, _)
CreateAll(fs, parsed, t) ==
    IF parsed = << >>
    THEN fs
    ELSE LET c == Head(parsed)
             r == add_citizen(fs, Citizen(c.pan, c.name, c.dob, c.address), t)
         IN  CreateAll(CreateAccounts(r.disk, c.pan, c.accounts, t), Tail(parsed), t)

\* C27: the import adds the records it parses to the store through
\* add_citizen / add_account: after an import the store holds what these
\* calls leave of the parsed records, and every record the import kept has
\* keys that the store's checks accept.
C27_ImportGoesThroughStore ==
    [][ (IsCall /\ last'.op = "site_b_import") =>
          LET parsed == citizens_data(last'.arg.xml)
          IN  /\ Stored(disk') = Stored(CreateAll(disk, parsed, now))
              /\ \A i \in DOMAIN data' : \A j \in DOMAIN data'[i].content.citizens :
                    LET c == data'[i].content.citizens[j]
                    IN  /\ validate_pan(c.pan)
                        /\ \A k \in DOMAIN c.accounts :
                              validate_account_number(c.accounts[k].account_number) ]_vars

-----------------------------------------------------------------------------
(* FixedDepositAccount.__init__ on the days of two years *)

\* the longest term in months
MaxTerm == 13

\* the days of the years 2023 and 2024 (a leap year)
OpeningDates ==
    { d \in {2023, 2024} \X (1..12) \X (1..31) : d[3] <= DaysInMonth(d[1], d[2]) }

InitDate ==
    /\ disk = EmptyDisk
    /\ now \in { [date |-> d, sec |-> 0] : d \in OpeningDates }
    /\ uuid = 0
    /\ last = NoCall
    /\ account = NoAccount
    /\ pc = "idle"
    /\ data = EmptyDatabase

\* FixedDepositAccount(...) at the time now: the object when the maturity
\* date exists, ValueError from datetime(...) otherwise
OpenFixedDeposit ==
    \E term_months \in 0..MaxTerm :
       LET m == calculate_maturity_date(now, term_months)
       IN  /\ last.n = 0
           /\ account' = IF m.ok
                         THEN FixedDepositAccount(ACC1, PAN1, 1000, "Main", term_months,
                                                  FixedDepositDefaultRate, now)
                         ELSE account
           /\ last' = Call("FixedDepositAccount",
                           [open_date |-> now, term_months |-> term_months],
                           IF m.ok THEN "ok" ELSE "ValueError")
           /\ UNCHANGED <<disk, now, uuid, pc, data>>

NextDate ==
    \/ OpenFixedDeposit

SpecDate == InitDate /\ [][NextDate]_vars

\* the months from year 0 to the month of a date
MonthsOf(d) == d[1] * 12 + (d[2] - 1)

\* C28: for every opening date and every term_months >= 0 the construction
\* of a FixedDeposit succeeds, and maturity_date is a date of the calendar
\* that lies term_months months after the opening month (month in 1..12,
\* year carried), also when the opening day is the 29th, 30th or 31st.
C28_MaturityDateIsValid ==
    [][ (IsCall /\ last'.op = "FixedDepositAccount") =>
          /\ last'.result = "ok"
          /\ LET d == account'.maturity_date.date
             IN  /\ d[2] \in 1..12
                 /\ MonthsOf(d) = MonthsOf(now.date) + last'.arg.term_months
                 /\ d[3] \in 1..DaysInMonth(d[1], d[2]) ]_vars

-----------------------------------------------------------------------------
(* deposit_money and withdraw_money run save by save: the account is found, *)
(* rebuilt and operated on in memory (account is the result of the method), *)
(* then update_account and record_transaction each load, change and save;   *)
(* a save can fail and the process can end between the two.  pc is the call *)
(* the flow makes next.                                                     *)

\* a flow that appends the Transaction before it updates the account
FlowSteps_LedgerFirst == <<"record_transaction", "update_account">>

\* the two calls that end deposit_money and withdraw_money, in their order
FlowSteps == <<"update_account", "record_transaction">>

\* what the flow does after a call of FlowSteps has returned
After(step) == IF step = FlowSteps[1] THEN FlowSteps[2] ELSE "idle"

\* deposit_money and withdraw_money up to update_account: [result, m]; m is
\* what account.deposit or account.withdraw left when result is "running"
Operate(op, fs, acc_no, amount, t, u) ==
    LET account_data == find_account_by_number(fs, acc_no)
        rebuilt == IF op = "deposit_money"
                   THEN RebuildForDeposit(account_data.found[1], t)
                   ELSE RebuildForWithdraw(account_data.found[1], t)
        m == IF op = "deposit_money"
             THEN Deposit(rebuilt.obj, amount, "Deposit", t, u)
             ELSE Withdraw(rebuilt.obj, amount, "Withdrawal", t, u)
    IN  IF ~ account_data.ok THEN [result |-> "DatabaseError", m |-> NoAccount]
        ELSE IF account_data.found = << >> THEN [result |-> "AccountNotFound", m |-> NoAccount]
        ELSE IF ~ (RebuildKeys \subseteq DOMAIN account_data.found[1])
        THEN [result |-> "KeyError", m |-> NoAccount]
        ELSE IF account_data.found[1].account_type \notin AccountTypes
        THEN [result |-> "UnknownAccountType", m |-> NoAccount]
        ELSE IF ~ rebuilt.ok THEN [result |-> "ValueError", m |-> NoAccount]
        ELSE IF m.raised # "none" THEN [result |-> m.raised, m |-> NoAccount]
        ELSE [result |-> "running", m |-> m]

\* deposit_money or withdraw_money from its start to the return of the method
BeginFlow(op, acc_no, amount) ==
    LET r == Operate(op, disk, acc_no, amount, now, uuid)
    IN  /\ pc = "idle"
        /\ last.n < MaxSaves
        /\ account' = r.m
        /\ uuid' = IF r.result = "running" THEN r.m.uuid ELSE uuid
        /\ pc' = IF r.result = "running" THEN FlowSteps[1] ELSE "idle"
        /\ last' = Call(op, [key |-> acc_no, amount |-> amount], r.result)
        /\ UNCHANGED <<disk, now, data>>

BeginDepositMoney ==
    \E acc_no \in {ACC1, ACC2}, amount \in DepositAmounts :
       BeginFlow("deposit_money", acc_no, amount)

BeginWithdrawMoney ==
    \E acc_no \in {ACC1, ACC2}, amount \in WithdrawAmounts :
       BeginFlow("withdraw_money", acc_no, amount)

\* a call of the flow has ended: by an exception, which ends the flow with
\* "Database error", or by its return
EndOfCall(step, fs, raised) ==
    /\ disk' = fs
    /\ pc' = IF raised # "none" THEN "idle" ELSE After(step)
    /\ account' = IF pc' = "idle" THEN NoAccount ELSE account
    /\ last' = [last EXCEPT !.result = IF raised # "none" THEN "DatabaseError"
                                       ELSE IF pc' = "idle" THEN "ok" ELSE @]
    /\ UNCHANGED <<now, uuid, data>>

\* database.update_account(acc_no, account.to_dict()): every exception of
\* the save leaves it as DatabaseError; its return value is not read
CallUpdateAccount ==
    \E fault \in PossibleFaults(disk) :
       LET r == LoadAndUpdate(disk, "accounts", "account_no", account.self.account_no,
                              AccountToDict(account.self))
           saved == save_database_with(disk, r.data, now, fault)
       IN  /\ pc = "update_account"
           /\ IF ~ r.ok THEN EndOfCall("update_account", disk, "DatabaseError")
              ELSE IF ~ r.found THEN EndOfCall("update_account", disk, "none")
              ELSE EndOfCall("update_account", saved.disk, saved.raised)

\* database.record_transaction(transaction)
CallRecordTransaction ==
    \E fault \in PossibleFaults(disk) :
       LET r == LoadAndAppend(disk, "transactions", TransactionToDict(Recorded(account)[1]))
           saved == save_database_with(disk, r.data, now, fault)
       IN  /\ pc = "record_transaction"
           /\ IF ~ r.ok THEN EndOfCall("record_transaction", disk, "DatabaseError")
              ELSE EndOfCall("record_transaction", saved.disk, saved.raised)

\* the process ends between the return of the method and the end of the flow
Crash ==
    /\ pc # "idle"
    /\ pc' = "idle"
    /\ account' = NoAccount
    /\ last' = [last EXCEPT !.result = "crashed"]
    /\ UNCHANGED <<disk, now, uuid, data>>

NextTwoSaves ==
    \/ BeginDepositMoney
    \/ BeginWithdrawMoney
    \/ CallUpdateAccount
    \/ CallRecordTransaction
    \/ Crash

SpecTwoSaves == InitFlow /\ [][NextTwoSaves]_vars

\* C31: in deposit_money and withdraw_money the update of the account
\* record is durable before the Transaction of the operation is appended:
\* a step that changes the stored transactions appends one Transaction, is
\* the record_transaction of the running flow, and finds the new balance of
\* the operation in the stored account record, which it leaves as it is;
\* this whatever save failed before and wherever a process ended.
C31_BalanceDurableBeforeLedgerEntry ==
    [][ Stored(disk').transactions # Stored(disk).transactions =>
          LET before == Stored(disk).transactions
              after == Stored(disk').transactions
          IN  /\ pc = "record_transaction"
              /\ Len(after) = Len(before) + 1
              /\ SubSeq(after, 1, Len(before)) = before
              /\ after[Len(after)] = TransactionToDict(Recorded(account)[1])
              /\ StoredBalance(disk, after[Len(after)].account_no) = account.self.balance
              /\ Stored(disk').accounts = Stored(disk).accounts ]_vars

\* a deposit of 500 on the Savings account opened with 1500 has ended well
\* after an earlier one ended between its two saves: the balance holds both,
\* the ledger the second
C31_Witness ==
    /\ pc = "idle"
    /\ last.op = "deposit_money"
    /\ last.result = "ok"
    /\ StoredBalance(disk, ACC1) = 2500
    /\ Len(Stored(disk).transactions) = 1
    /\ Stored(disk).transactions[1].amount = 500

-----------------------------------------------------------------------------
(* Two writers: add_account of one account_no in two processes over one     *)
(* durable file.  pc, account and data are here functions of the writer:    *)
(* where it stands, the account object it adds and the snapshot it has      *)
(* loaded and changed.                                                      *)

Creators == {"creator1", "creator2"}

NoCreate == [n |-> 0, op |-> "creators", arg |-> [overlap |-> FALSE],
             result |-> [w \in Creators |-> "none"]]

InitCreate ==
    /\ disk \in OpenedStores
    /\ now = OpenTime
    /\ uuid = 0
    /\ last = NoCreate
    /\ account \in [Creators -> NewAccounts(ACC2, PAN1, OpenTime)]
    /\ pc = [w \in Creators |-> "idle"]
    /\ data = [w \in Creators |-> EmptyDatabase]

\* another writer stands within its add_account
OtherRuns(w) == \E v \in Creators \ {w} : pc[v] \notin {"idle", "done"}

\* the writer w goes on to the statement at, or ends with result
CreatorGoes(w, at, result) ==
    /\ pc' = [pc EXCEPT ![w] = at]
    /\ last' = [last EXCEPT !.n = @ + 1,
                            !.arg.overlap = @ \/ (pc[w] = "idle" /\ OtherRuns(w)),
                            !.result[w] = result]

\* add_account: validate_account_number and "Check if account already exists"
CreatorFindsAccount ==
    \E w \in Creators :
       LET existing == find_account_by_number(disk, account[w].account_no)
       IN  /\ pc[w] = "idle"
           /\ IF ~ validate_account_number(account[w].account_no)
              THEN CreatorGoes(w, "done", "InvalidFormat")
              ELSE IF ~ existing.ok THEN CreatorGoes(w, "done", "DatabaseError")
              ELSE IF existing.found # << >> THEN CreatorGoes(w, "done", "DuplicateKey")
              ELSE CreatorGoes(w, "checked", "none")
           /\ UNCHANGED <<disk, now, uuid, account, data>>

\* add_account: "Verify PAN exists"
CreatorFindsCitizen ==
    \E w \in Creators :
       LET citizen == find_citizen_by_pan(disk, account[w].pan_number)
       IN  /\ pc[w] = "checked"
           /\ IF ~ citizen.ok THEN CreatorGoes(w, "done", "DatabaseError")
              ELSE IF citizen.found = << >> THEN CreatorGoes(w, "done", "UnknownReference")
              ELSE CreatorGoes(w, "verified", "none")
           /\ UNCHANGED <<disk, now, uuid, account, data>>

\* add_account: db = load_database(); db["accounts"].append(account.to_dict())
CreatorLoads ==
    \E w \in Creators :
       LET r == LoadAndAppend(disk, "accounts", AccountToDict(account[w]))
       IN  /\ pc[w] = "verified"
           /\ IF ~ r.ok
              THEN CreatorGoes(w, "done", "DatabaseError") /\ data' = data
              ELSE CreatorGoes(w, "loaded", "none") /\ data' = [data EXCEPT ![w] = r.data]
           /\ UNCHANGED <<disk, now, uuid, account>>

\* add_account: save_database(db) and return True
CreatorSaves ==
    \E w \in Creators :
       /\ pc[w] = "loaded"
       /\ disk' = save_database(disk, data[w], now)
       /\ CreatorGoes(w, "done", "True")
       /\ UNCHANGED <<now, uuid, account, data>>

NextCreate ==
    \/ CreatorFindsAccount
    \/ CreatorFindsCitizen
    \/ CreatorLoads
    \/ CreatorSaves

SpecCreate == InitCreate /\ [][NextCreate]_vars

\* the writers whose add_account returned True, and the stored records of
\* the account_no they add
Succeeded == {w \in Creators : last.result[w] = "True"}
RecordsOfKey == Count(Stored(disk).accounts, "account_no", ACC2)
BothReturned == last.op = "creators" /\ \A w \in Creators : pc[w] = "done"

-----------------------------------------------------------------------------
(* save_database followed by load_database, on the snapshots of SnapshotSet *)

SeqsUpTo(S, n) == UNION { [1..k -> S] : k \in 0..n }

CitizenDicts ==
    { Citizen(PAN1, "n1", "1990-01-01", "addr"), Citizen(PAN2, "n2", "1985-12-31", "") }

AccountDicts ==
    { AccountToDict(a) : a \in NewAccounts(ACC1, PAN1, OpenTime) }

TransactionDicts ==
    { TransactionToDict(Transaction(ACC1, 100, "fee", "Overdraft fee", OpenTime, 0)),
      TransactionToDict(Transaction(ACC1, 600, "withdrawal", "Withdrawal (with overdraft)", OpenTime, 1)) }

SnapshotSet ==
    [citizens : SeqsUpTo(CitizenDicts, MaxRecords),
     accounts : SeqsUpTo(AccountDicts, MaxRecords),
     transactions : SeqsUpTo(TransactionDicts, MaxRecords)]

InitJson ==
    /\ disk = EmptyDisk
    /\ now = OpenTime
    /\ uuid = 0
    /\ last = NoCall
    /\ account = NoAccount
    /\ pc = "idle"
    /\ data \in SnapshotSet

\* save_database(data), then load_database()
SaveThenLoad ==
    /\ last.n = 0
    /\ disk' = save_database(disk, data, now)
    /\ last' = Call("save_load", [saved |-> data], load_database(disk'))
    /\ UNCHANGED <<now, uuid, account, pc, data>>

NextJson == SaveThenLoad

SpecJson == InitJson /\ [][NextJson]_vars

====
